---- MODULE Spec2Model ----
(***************************************************************************)
(* The event-hook subsystem of mouce: the callback registry of a mouse     *)
(* manager (hook / unhook / unhook_all), the lazy start of the listener    *)
(* and the threads the listener consists of.                               *)
(*                                                                         *)
(* Three backends are modelled:                                            *)
(*   "nix"     src/src/nix/x11.rs and src/src/nix/uinput.rs (the same      *)
(*             hook/unhook/unhook_all), listener of src/src/nix/mod.rs;    *)
(*   "windows" src/src/windows.rs;                                         *)
(*   "darwin"  src/src/darwin.rs.                                          *)
(* Handle 1 is the manager returned by new().  Handle 2 is a second handle *)
(* on the same callback map: a clone of handle 1 on "nix" (X11MouseManager *)
(* derives Clone, the map is an Arc), a second manager instance on         *)
(* "windows"/"darwin" (the map is the process-wide static CALLBACKS).      *)
(***************************************************************************)
EXTENDS Integers, Sequences, FiniteSets, Bags, TLC

VARIABLES
    backend,           \* which backend this process was built for
    handles,           \* the manager handles that exist
    callbacks,         \* the callback map: None, or Some(function id -> callback)
    callback_counter,  \* per handle: the next id to hand out
    is_listening,      \* per handle: the is-listening flag
    last,              \* the last call of the interface and what it returned
    nhooks,            \* number of callbacks registered so far (callback identity)
    chans,             \* nix: the mpsc channels created by start_nix_listener
    threads,           \* the listener threads spawned so far
    nev,               \* number of raw events the hardware has emitted
    delivered,         \* bag of the invocations <<event, callback, dispatching thread>>
    ndev,              \* nix: number of mouse device files the glob finds
    lock,              \* the mutex of the callback map, and the dispatch that holds it
    TAP_EVENT_REF,     \* darwin: the static Option holding the event tap
    hooked_at,         \* per callback: the events emitted when its hook returned
    received,          \* the raw record the handler of the listener got last
    mouse_event,       \* what the handler made of it: an event, none, or a panic
    invoked,           \* the ids of the callbacks the handler invoked with it
    files,             \* nix: the paths the two globs yield, in their order
    previous_paths,    \* nix: the paths the loop over the files has opened
    injected           \* the records the action calls have handed to the OS

\* the handler of the raw records
handler_vars == <<received, mouse_event, invoked>>

\* the loop over the device files
glob_vars == <<files, previous_paths>>

vars == <<backend, handles, callbacks, callback_counter, is_listening, last,
          nhooks, chans, threads, nev, delivered, ndev, lock, TAP_EVENT_REF,
          hooked_at, received, mouse_event, invoked, files, previous_paths,
          injected>>

---------------------------------------------------------------------------
(* Program constants *)

\* pub type CallbackId = u8
CallbackIdBits == 8

CallbackIdCard == 2 ^ CallbackIdBits

CallbackId == 0 .. (CallbackIdCard - 1)

Backends == {"nix", "windows", "darwin"}

Handles == {1, 2}


---------------------------------------------------------------------------
(* Bounds of the model *)

\* hook calls that register a callback
MaxHooks == 3

\* hook calls that register a callback, beside raw events on two handles
\* (SpecListen)
MaxListenHooks == 3

\* hook calls that register a callback, beside raw events
MaxDeliverHooks == 2

\* hook calls that register a callback, in the long run of one handle (SpecWrap)
MaxWrapHooks == 258

\* device files found under /dev/input/by-id and /dev/input/by-path
NumDevices == 2

\* calls of start_nix_listener (each creates one channel)
MaxStarts == 2

\* raw events emitted by the hardware
MaxEvents == 1

\* raw events emitted by the hardware, beside calls on two handles (SpecListen)
MaxListenEvents == 2

\* raw records given to the handler of the listener (SpecHandle)
MaxRecords == 2

\* hook calls that register a callback, beside raw records (SpecHandle)
MaxRecordHooks == 1

\* files the globs of /dev/input/by-id and /dev/input/by-path yield (SpecGlob)
MaxFiles == 3

\* the ids the caller passes to unhook
UnhookIds == {0, 1, 5}

Devices == 1 .. ndev

---------------------------------------------------------------------------
(* Helpers *)

\* HashMap::insert: adds the entry, or replaces the value stored under k
MapInsert(m, k, v) == [x \in (DOMAIN m) \cup {k} |-> IF x = k THEN v ELSE m[x]]

\* HashMap::remove
MapRemove(m, k) == [x \in (DOMAIN m) \ {k} |-> m[x]]

\* HashMap::new / HashMap::clear
EmptyMap == [x \in {} |-> 0]

\* static mut CALLBACKS: Option<Mutex<HashMap<..>>> = None
None == [some |-> FALSE, map |-> EmptyMap]

Some(m) == [some |-> TRUE, map |-> m]

\* fn initialize_callbacks(): creates the static map if it is None
initialize_callbacks(c) == IF c.some THEN c ELSE Some(EmptyMap)

\* self.callback_counter += 1 on a u8, overflow checks off (release profile)
WrappingInc(c) == (c + 1) % CallbackIdCard

\* A call of the interface that has ended: the operation, its result and the
\* CallbackId it returned (hook) or was given (unhook)
Call(op, res, id) == [op |-> op, res |-> res, id |-> id]

Running == last.res # "panic"

\* The mutex of the callback map.  hook, unhook and unhook_all hold it for one
\* map operation; the dispatch loop holds it from callbacks.lock() to the end
\* of the for loop (the guard is a temporary of the loop's iterator
\* expression): by is the dispatching thread, ev its event, todo the ids of
\* the callbacks the iteration has not reached yet, stuck is set when the
\* callback being invoked does not return
Unlocked == [held |-> FALSE, by |-> 0, ev |-> 0, todo |-> {}, stuck |-> FALSE]

\* Faulty variant of LockedBy: the guard is kept after the last callback
LockedByNeverReleased(src, ev, ids) ==
    [held |-> TRUE, by |-> src, ev |-> ev, todo |-> ids, stuck |-> FALSE]

LockedBy(src, ev, ids) ==
    IF ids = {} THEN Unlocked
    ELSE [held |-> TRUE, by |-> src, ev |-> ev, todo |-> ids, stuck |-> FALSE]

\* A raw event: the n-th the hardware emitted, on device dev (0: the pointer
\* of windows / darwin)
Event(n, d) == [n |-> n, dev |-> d]

---------------------------------------------------------------------------
(* Initial state: Mouse::new() has returned handle 1 *)

\* no raw record has reached a handler yet
NoRecord == <<>>

\* None of Option<MouseEvent>, and the continue of the device-file dispatch loop
NoEvent == <<>>

\* The canonical path of the device node of device d, /dev/input/event<d>
CanonicalPath(d) == <<"/dev/input/event", d>>

\* Another spelling of an absolute path that leads to the node of device d
\* (such as /dev/input/../input/event<d>)
OtherPath(d) == <<"/dev/input/../input/event", d>>

\* The path of the i-th file the globs yield (by-id before by-path)
FilePath(i) == <<"/dev/input/by-*/*-event-mouse", i>>

\* A file the globs yield: its own path, the device it leads to, whether it is
\* a symlink with a relative or an absolute target or no symlink, and the
\* target as it is written in the link
File(i, d, link, target) == [path |-> FilePath(i), dev |-> d, link |-> link, target |-> target]

\* What udev creates: for every device one symlink with a relative target
\* (../event<d>)
UdevLinks(n) == [d \in 1 .. n |-> File(d, d, "relative", CanonicalPath(d))]

\* The manager, its callback map and its listener after new()
InitManager ==
    /\ backend \in Backends
    /\ handles = {1}
    /\ callbacks = IF backend = "nix" THEN Some(EmptyMap) ELSE None
    /\ callback_counter = [h \in Handles |-> 0]
    /\ is_listening = [h \in Handles |-> FALSE]
    /\ last = Call("new", "Ok", 0)
    /\ nhooks = 0
    /\ chans = <<>>
    /\ threads = {}
    /\ nev = 0
    /\ delivered = EmptyBag
    /\ lock = Unlocked
    /\ TAP_EVENT_REF = 0
    /\ hooked_at = <<>>
    /\ received = NoRecord
    /\ mouse_event = NoEvent
    /\ invoked = {}
    /\ previous_paths = <<>>
    /\ injected = <<>>

Init ==
    /\ InitManager
    /\ ndev \in {0, NumDevices}
    /\ backend # "nix" => ndev = 0
    /\ files = UdevLinks(ndev)

---------------------------------------------------------------------------
(* The listener start *)

Reader(h, c, d) ==
    [kind |-> "reader", h |-> h, chan |-> c, dev |-> d, st |-> "reading", buf |-> <<>>]

Tap(h) ==
    [kind |-> "tap", h |-> h, chan |-> 0, dev |-> 0, st |-> "spawned", buf |-> <<>>]

\* Faulty variant of OpenedDevices: the file that cannot be opened is skipped and the
\* loop goes on with the files after it
OpenedDevicesSkipping(failAt) == {d \in Devices : d # failAt}

\* start_nix_listener, the loop over the device files: the files are opened in
\* order and a reader thread is spawned for each one opened; the first open that
\* fails (failAt, 0 when none fails) returns Err(PermissionDenied) from the loop
OpenedDevices(failAt) == {d \in Devices : failAt = 0 \/ d < failAt}

\* start_nix_listener: Ok when every open succeeded
StartNixResult(failAt) == IF failAt = 0 THEN "Ok" ELSE "PermissionDenied"

\* start_nix_listener: the channel it created.  On Ok the receiver is moved
\* into the dispatch thread; on Err it is dropped when the function returns
StartNixChannel(failAt) ==
    [rx |-> IF failAt = 0 THEN "dispatching" ELSE "dropped", q |-> <<>>]

\* WindowsMouseManager::start_listener / DarwinMouseManager::start_listener:
\* spawns the thread that will install the hook / event tap, and returns Ok(())
StartListenerResult == "Ok"

\* if !self.is_listening { .. }
NeedsStart(h) == ~is_listening[h]

\* Faulty variant of FlagAfterStart: the flag is set before the result of the start is
\* looked at
FlagSetBeforeStart(h, res) == [is_listening EXCEPT ![h] = TRUE]

\* start..(..)?; self.is_listening = true;  the ? returns before the flag is
\* set when the start failed
FlagAfterStart(h, res) ==
    IF res = "Ok" THEN [is_listening EXCEPT ![h] = TRUE] ELSE is_listening

---------------------------------------------------------------------------
(* hook *)

\* The mutex is poisoned: a thread panicked while it held the guard.  The
\* calls hold the guard for one map operation, which does not panic; a
\* dispatch thread holds it while the callbacks run
Poisoned == \E c \in DOMAIN chans : chans[c].rx = "panicked"

\* callbacks.lock().unwrap() returns: no dispatch loop holds the mutex, and the
\* mutex is not poisoned.  A call of hook, unhook or unhook_all takes place
\* when it gets the lock
CanLock == ~lock.held /\ ~Poisoned

\* let id = self.callback_counter;
HookId(h) == callback_counter[h]

\* callbacks.lock().unwrap().insert(id, callback)
HookInsert(m, id, cb) == MapInsert(m, id, cb)

\* self.callback_counter += 1: wraps in a build without overflow checks, panics
\* in a build with them
Overflows(c) == c + 1 >= CallbackIdCard

\* Faulty variant of Register: with the static map still None the counter is
\* advanced by the call of hook and by the call of hook inside it
RegisterCountsTwice(h, ovf) ==
    LET id == HookId(h)
        cb == nhooks + 1
        m  == initialize_callbacks(callbacks).map
    IN  /\ callbacks' = Some(HookInsert(m, id, cb))
        /\ nhooks' = cb
        /\ hooked_at' = Append(hooked_at, nev)
        /\ callback_counter' =
               [callback_counter EXCEPT ![h] =
                   IF callbacks.some THEN WrappingInc(callback_counter[h])
                   ELSE WrappingInc(WrappingInc(callback_counter[h]))]
        /\ last' = Call("hook", "Ok", id)

\* hook, the part after the listener start: with the static map still None the
\* code calls initialize_callbacks() and then hook again, which finds
\* is_listening set and the map created
Register(h, ovf) ==
    LET id == HookId(h)
        cb == nhooks + 1
        m  == initialize_callbacks(callbacks).map
    IN  /\ callbacks' = Some(HookInsert(m, id, cb))
        /\ nhooks' = cb
        /\ hooked_at' = Append(hooked_at, nev)
        /\ IF Overflows(callback_counter[h]) /\ ovf = "panic"
           THEN /\ callback_counter' = callback_counter
                /\ last' = Call("hook", "panic", id)
           ELSE /\ callback_counter' =
                       [callback_counter EXCEPT ![h] = WrappingInc(callback_counter[h])]
                /\ last' = Call("hook", "Ok", id)

\* X11MouseManager::hook / UInputMouseManager::hook
HookNix(h, failAt, ovf) ==
    /\ backend = "nix"
    /\ h \in handles
    /\ Running
    /\ CanLock
    /\ IF NeedsStart(h)
       THEN /\ chans' = Append(chans, StartNixChannel(failAt))
            /\ threads' = threads \cup
                   {Reader(h, Len(chans) + 1, d) : d \in OpenedDevices(failAt)}
            /\ is_listening' = FlagAfterStart(h, StartNixResult(failAt))
            /\ IF StartNixResult(failAt) = "Ok"
               THEN Register(h, ovf)
               ELSE /\ last' = Call("hook", StartNixResult(failAt), 0)
                    /\ UNCHANGED <<callbacks, callback_counter, nhooks, hooked_at>>
       ELSE /\ Register(h, ovf)
            /\ UNCHANGED <<chans, threads, is_listening>>
    /\ UNCHANGED <<handler_vars, glob_vars, injected, backend, handles, nev, delivered, ndev, lock, TAP_EVENT_REF>>

\* WindowsMouseManager::hook / DarwinMouseManager::hook
HookGlobal(h, ovf) ==
    /\ backend \in {"windows", "darwin"}
    /\ h \in handles
    /\ Running
    /\ CanLock
    /\ IF NeedsStart(h)
       THEN /\ threads' = threads \cup {Tap(h)}
            /\ is_listening' = FlagAfterStart(h, StartListenerResult)
            /\ IF StartListenerResult = "Ok"
               THEN Register(h, ovf)
               ELSE /\ last' = Call("hook", StartListenerResult, 0)
                    /\ UNCHANGED <<callbacks, callback_counter, nhooks, hooked_at>>
       ELSE /\ Register(h, ovf)
            /\ UNCHANGED <<threads, is_listening>>
    /\ UNCHANGED <<handler_vars, glob_vars, injected, backend, handles, chans, nev, delivered, ndev, lock,
                   TAP_EVENT_REF>>

---------------------------------------------------------------------------
(* unhook / unhook_all *)

\* Faulty variant of UnhookResult: the Option returned by remove is ignored
UnhookResultIgnored(m, id) == "Ok"

\* Faulty variant of UnhookRemove: the whole map is cleared
UnhookRemoveClears(m, id) == EmptyMap

\* Faulty variant of UnhookRemove: the entry stays in the map
UnhookRemoveKeeps(m, id) == m

\* match callbacks.remove(&callback_id) { Some(_) => Ok(()), None => Err(UnhookFailed) }
UnhookResult(m, id) == IF id \in DOMAIN m THEN "Ok" ELSE "UnhookFailed"

UnhookRemove(m, id) == MapRemove(m, id)

\* Faulty variant of unhook: the call starts the listener of a manager that is
\* not listening yet
unhook_StartsListener(h, id) ==
    /\ h \in handles
    /\ Running
    /\ CanLock
    /\ LET m == initialize_callbacks(callbacks).map
       IN  /\ callbacks' = Some(UnhookRemove(m, id))
           /\ last' = Call("unhook", UnhookResult(m, id), id)
    /\ threads' = IF NeedsStart(h) THEN threads \cup {Tap(h)} ELSE threads
    /\ is_listening' = [is_listening EXCEPT ![h] = TRUE]
    /\ UNCHANGED <<handler_vars, glob_vars, injected, backend, handles, callback_counter, nhooks,
                   chans, nev, delivered, ndev, lock, TAP_EVENT_REF, hooked_at>>

\* unhook on every backend; on windows/darwin a None map is created first
unhook(h, id) ==
    /\ h \in handles
    /\ Running
    /\ CanLock
    /\ LET m == initialize_callbacks(callbacks).map
       IN  /\ callbacks' = Some(UnhookRemove(m, id))
           /\ last' = Call("unhook", UnhookResult(m, id), id)
    /\ UNCHANGED <<handler_vars, glob_vars, injected, backend, handles, callback_counter, is_listening, nhooks,
                   chans, threads, nev, delivered, ndev, lock, TAP_EVENT_REF,
                   hooked_at>>

\* Faulty variant of UnhookAllClear: a copy of the map is cleared, the map keeps its entries
UnhookAllClearsCopy(m) == m

\* Faulty variant of unhook_all: clearing a map that holds nothing is reported as
\* UnhookFailed
unhook_all_FailsOnEmpty(h) ==
    /\ h \in handles
    /\ Running
    /\ CanLock
    /\ callbacks' = Some(EmptyMap)
    /\ last' = Call("unhook_all",
                    IF DOMAIN callbacks.map = {} THEN "UnhookFailed" ELSE "Ok", 0)
    /\ UNCHANGED <<handler_vars, glob_vars, injected, backend, handles, callback_counter, is_listening, nhooks,
                   chans, threads, nev, delivered, ndev, lock, TAP_EVENT_REF,
                   hooked_at>>

\* Faulty variant of unhook_all: with the last callback gone the manager marks
\* its listener as not started
unhook_all_StopsListening(h) ==
    /\ h \in handles
    /\ Running
    /\ CanLock
    /\ callbacks' = Some(EmptyMap)
    /\ last' = Call("unhook_all", "Ok", 0)
    /\ is_listening' = [is_listening EXCEPT ![h] = FALSE]
    /\ UNCHANGED <<handler_vars, glob_vars, injected, backend, handles, callback_counter, nhooks, chans, threads, nev,
                   delivered, ndev, lock, TAP_EVENT_REF, hooked_at>>

\* callbacks.lock().unwrap().clear()
UnhookAllClear(m) == EmptyMap

\* unhook_all on every backend; on windows/darwin a None map is created first
unhook_all(h) ==
    /\ h \in handles
    /\ Running
    /\ CanLock
    /\ callbacks' = Some(UnhookAllClear(initialize_callbacks(callbacks).map))
    /\ last' = Call("unhook_all", "Ok", 0)
    /\ UNCHANGED <<handler_vars, glob_vars, injected, backend, handles, callback_counter, is_listening, nhooks,
                   chans, threads, nev, delivered, ndev, lock, TAP_EVENT_REF,
                   hooked_at>>

---------------------------------------------------------------------------
(* The listener thread of windows / darwin *)

\* HOOK = SetWindowsHookExA(..) / TAP_EVENT_REF = Some(CGEventTapCreate(..)):
\* the OS returns a handle, or null; the result is not looked at.  On windows
\* the thread then waits in GetMessageA, during which the OS calls the handler;
\* on darwin the tap still has to be put on the run loop of the thread
Install(t, ok) ==
    /\ t \in threads
    /\ t.kind = "tap"
    /\ t.st = "spawned"
    /\ threads' = (threads \ {t}) \cup
           {[t EXCEPT !.st = IF ~ok THEN "failed"
                             ELSE IF backend = "darwin" THEN "created"
                             ELSE "installed"]}
    /\ TAP_EVENT_REF' = IF backend = "darwin" THEN t.h ELSE TAP_EVENT_REF
    /\ UNCHANGED <<handler_vars, glob_vars, injected, backend, handles, callbacks, callback_counter, is_listening,
                   last, nhooks, chans, nev, delivered, ndev, lock, hooked_at>>

\* darwin: CFMachPortCreateRunLoopSource(null_mut(), TAP_EVENT_REF.unwrap(), 0);
\* .. CGEventTapEnable(TAP_EVENT_REF.unwrap(), true); CFRunLoopRun().  The
\* unwrap panics, and the thread ends, when TAP_EVENT_REF is None again
Enable(t) ==
    /\ t \in threads
    /\ t.kind = "tap"
    /\ t.st = "created"
    /\ threads' = (threads \ {t}) \cup
           {[t EXCEPT !.st = IF TAP_EVENT_REF = 0 THEN "dead" ELSE "installed"]}
    /\ UNCHANGED <<handler_vars, glob_vars, injected, backend, handles, callbacks, callback_counter, is_listening,
                   last, nhooks, chans, nev, delivered, ndev, lock, TAP_EVENT_REF,
                   hooked_at>>

\* windows: GetMessageA(null_mut(), null_mut(), 0, 0) is called once, not in a
\* loop: it returns when a message is posted to the queue of the thread, and
\* the closure of the thread then returns.  The handler is called by the OS
\* only while the thread waits in GetMessageA
GetMessageReturns(t) ==
    /\ backend = "windows"
    /\ t \in threads
    /\ t.kind = "tap"
    /\ t.st \in {"installed", "failed"}
    /\ threads' = (threads \ {t}) \cup {[t EXCEPT !.st = "returned", !.buf = <<>>]}
    /\ UNCHANGED <<handler_vars, glob_vars, injected, backend, handles, callbacks, callback_counter, is_listening,
                   last, nhooks, chans, nev, delivered, ndev, lock, TAP_EVENT_REF,
                   hooked_at>>

---------------------------------------------------------------------------
(* A second handle on the same callback map *)

\* #[derive(Clone)] on X11MouseManager: the Arc of the map is shared, the
\* counter and the flag are copied
Clone ==
    /\ backend = "nix"
    /\ Running
    /\ 1 \in handles
    /\ 2 \notin handles
    /\ handles' = handles \cup {2}
    /\ callback_counter' = [callback_counter EXCEPT ![2] = callback_counter[1]]
    /\ is_listening' = [is_listening EXCEPT ![2] = is_listening[1]]
    /\ UNCHANGED <<handler_vars, glob_vars, injected, backend, callbacks, last, nhooks, chans, threads, nev, delivered,
                   ndev, lock, TAP_EVENT_REF, hooked_at>>

\* WindowsMouseManager::new / DarwinMouseManager::new called again: a manager
\* with its own counter and flag; the map is the static CALLBACKS
NewInstance ==
    /\ backend \in {"windows", "darwin"}
    /\ Running
    /\ 2 \notin handles
    /\ handles' = handles \cup {2}
    /\ callback_counter' = [callback_counter EXCEPT ![2] = 0]
    /\ is_listening' = [is_listening EXCEPT ![2] = FALSE]
    /\ UNCHANGED <<handler_vars, glob_vars, injected, backend, callbacks, last, nhooks, chans, threads, nev, delivered,
                   ndev, lock, TAP_EVENT_REF, hooked_at>>

---------------------------------------------------------------------------
(* A manager is dropped *)

\* TAP_EVENT_REF after impl Drop for DarwinMouseManager: match TAP_EVENT_REF {
\* Some(event_ref) => { CFRelease(event_ref); TAP_EVENT_REF = None; } .. }
DropTapRef(ref) == 0

\* Dropping manager h.  X11MouseManager has no Drop; the Drop of
\* UInputMouseManager destroys the virtual device the manager injects events
\* with; the Drop of WindowsMouseManager calls UnhookWindowsHookEx only when
\* HOOK is null (if HOOK.is_null() { .. }), so it never removes an installed
\* hook; the Drop of DarwinMouseManager gives up the reference in
\* TAP_EVENT_REF, whichever manager started the listener (the run loop the tap
\* was added to keeps its own reference to the port)
Drop(h) ==
    /\ h \in handles
    /\ Running
    /\ handles' = handles \ {h}
    /\ callback_counter' = [callback_counter EXCEPT ![h] = 0]
    /\ is_listening' = [is_listening EXCEPT ![h] = FALSE]
    /\ TAP_EVENT_REF' = IF backend = "darwin" THEN DropTapRef(TAP_EVENT_REF)
                                              ELSE TAP_EVENT_REF
    /\ UNCHANGED <<handler_vars, glob_vars, injected, backend, callbacks, last, nhooks, chans, threads, nev, delivered,
                   ndev, lock, hooked_at>>

---------------------------------------------------------------------------
(* The raw records and their normalization to a MouseEvent *)

\* i32
MinI32 == -2147483647 - 1

MaxI32 == 2147483647

I32 == MinI32 .. MaxI32

\* A 16-bit word; a u32 (c_uint, DWord) is written as the pair <<high word,
\* low word>> of its 16-bit words
WordCard == 65536

\* src/src/nix/uinput.rs, the codes of the input_event records
EV_KEY == 1

EV_REL == 2

EV_ABS == 3

REL_X == 0

REL_Y == 1

REL_HWHEEL == 6

REL_WHEEL == 8

BTN_LEFT == 272

BTN_RIGHT == 273

BTN_MIDDLE == 274

\* src/src/windows.rs, the messages of the low-level mouse hook
WM_MOUSEMOVE == 512

WM_LBUTTONDOWN == 513

WM_LBUTTONUP == 514

WM_RBUTTONDOWN == 516

WM_RBUTTONUP == 517

WM_MBUTTONDOWN == 519

WM_MBUTTONUP == 520

WM_MOUSEWHEEL == 522

WM_MOUSEHWHEEL == 526

WHEEL_DELTA == 120

\* src/src/darwin.rs, enum CGEventType
LeftMouseDown == 1

LeftMouseUp == 2

RightMouseDown == 3

RightMouseUp == 4

MouseMoved == 5

LeftMouseDragged == 6

RightMouseDragged == 7

KeyDown == 10

KeyUp == 11

ScrollWheel == 22

OtherMouseDown == 25

OtherMouseUp == 26

OtherMouseDragged == 27

\* enum MouseEvent, as the backends construct its values: the device-file
\* listener gives Scroll a direction and a u32 magnitude, the event tap gives
\* Press the position of the pointer and has the two keyboard variants
RelativeMove(x, y) == <<"RelativeMove", x, y>>

AbsoluteMove(x, y) == <<"AbsoluteMove", x, y>>

Press(button) == <<"Press", button>>

PressAt(button, x, y) == <<"Press", button, x, y>>

Release(button) == <<"Release", button>>

Scroll(direction) == <<"Scroll", direction>>

ScrollBy(direction, magnitude) == <<"Scroll", direction, magnitude>>

KeyDownEvent == <<"KeyDown">>

KeyUpEvent == <<"KeyUp">>

\* the handler panicked while it constructed the event
Panicked == <<"panic">>

\* pub struct InputEvent { time, r#type: u16, code: u16, value: c_int }
InputEvent(type, code, value) == [type |-> type, code |-> code, value |-> value]

\* Faulty variant of NixButton: the codes of the right and the left button are
\* mixed up
NixButtonSwapped(code) ==
    IF code = BTN_LEFT THEN "Right"
    ELSE IF code = BTN_RIGHT THEN "Left"
    ELSE IF code = BTN_MIDDLE THEN "Middle"
    ELSE "unknown"

\* let button = if code == BTN_LEFT { Left } else if code == BTN_RIGHT { Right }
\* else if code == BTN_MIDDLE { Middle } else { continue };
NixButton(code) ==
    IF code = BTN_LEFT THEN "Left"
    ELSE IF code = BTN_RIGHT THEN "Right"
    ELSE IF code = BTN_MIDDLE THEN "Middle"
    ELSE "unknown"

\* Faulty variant of unsigned_abs: received.value as u32, the two's complement
\* of a negative value
CastToU32(v) ==
    IF v >= 0 THEN <<v \div WordCard, v % WordCard>>
    ELSE LET m == -(v + 1)
         IN  <<(WordCard - 1) - (m \div WordCard), (WordCard - 1) - (m % WordCard)>>

\* i32::unsigned_abs: the absolute value as a u32, 2^31 for i32::MIN
unsigned_abs(v) ==
    IF v >= 0 THEN <<v \div WordCard, v % WordCard>>
    ELSE LET m == -(v + 1)
         IN  IF m % WordCard = WordCard - 1
             THEN <<(m \div WordCard) + 1, 0>>
             ELSE <<m \div WordCard, (m % WordCard) + 1>>

\* The dispatch thread of start_nix_listener, the construction of mouse_event
\* from the record received (continue: no event)
NixMouseEvent(rec) ==
    IF rec.type = EV_KEY
    THEN IF NixButton(rec.code) = "unknown" THEN NoEvent
         ELSE IF rec.value = 1 THEN Press(NixButton(rec.code))
         ELSE Release(NixButton(rec.code))
    ELSE IF rec.type = EV_REL
    THEN IF rec.code = REL_WHEEL
         THEN ScrollBy(IF rec.value > 0 THEN "Up" ELSE "Down", unsigned_abs(rec.value))
         ELSE IF rec.code = REL_HWHEEL
         THEN ScrollBy(IF rec.value > 0 THEN "Right" ELSE "Left",
                       unsigned_abs(rec.value))
         ELSE IF rec.code = REL_X THEN RelativeMove(rec.value, 0)
         ELSE IF rec.code = REL_Y THEN RelativeMove(0, rec.value)
         ELSE NoEvent
    ELSE NoEvent

\* The call of low_level_mouse_handler: the message, and the fields pt and
\* mouse_data of the MSLLHookStruct behind lpdata
MouseMessage(w_param, pt, mouse_data) ==
    [w_param |-> w_param, pt |-> pt, mouse_data |-> mouse_data]

\* unsafe fn get_delta: ((mouse.mouse_data >> 16) & 0xffff) as Word
get_delta(mouse_data) == mouse_data[1] % WordCard

\* Faulty variant of TryIntoFits: the coordinate is converted to an i16
TryIntoI16Fits(x) == x \in -32768 .. 32767

\* x.try_into() of a c_long (32 bits on windows) to an i32 is Ok
TryIntoFits(x) == x \in I32

\* match delta { 1 => .., _ => .. } of the wheel messages
WheelDirection(delta, one, other) == IF delta = 1 THEN one ELSE other

\* low_level_mouse_handler, the construction of mouse_event
WindowsMouseEvent(rec) ==
    IF rec.w_param = WM_MOUSEMOVE
    THEN IF TryIntoFits(rec.pt[1]) /\ TryIntoFits(rec.pt[2])
         THEN AbsoluteMove(rec.pt[1], rec.pt[2])
         ELSE Panicked
    ELSE IF rec.w_param = WM_LBUTTONDOWN THEN Press("Left")
    ELSE IF rec.w_param = WM_MBUTTONDOWN THEN Press("Middle")
    ELSE IF rec.w_param = WM_RBUTTONDOWN THEN Press("Right")
    ELSE IF rec.w_param = WM_LBUTTONUP THEN Release("Left")
    ELSE IF rec.w_param = WM_MBUTTONUP THEN Release("Middle")
    ELSE IF rec.w_param = WM_RBUTTONUP THEN Release("Right")
    ELSE IF rec.w_param = WM_MOUSEWHEEL
    THEN Scroll(WheelDirection(get_delta(rec.mouse_data) \div WHEEL_DELTA, "Up", "Down"))
    ELSE IF rec.w_param = WM_MOUSEHWHEEL
    THEN Scroll(WheelDirection(get_delta(rec.mouse_data) \div WHEEL_DELTA,
                               "Right", "Left"))
    ELSE NoEvent

\* A c_double: a whole number, or one of the values an i32 cannot hold
Double(cls, val) == [cls |-> cls, val |-> val]

\* point.x as i32: the cast of a float saturates, and takes NaN to 0
AsI32(f) ==
    IF f.cls = "nan" THEN 0
    ELSE IF f.cls = "above" THEN MaxI32
    ELSE IF f.cls = "below" THEN MinI32
    ELSE f.val

\* The call of mouse_on_event_callback: the event type, CGEventGetLocation of
\* the event and its integer fields 96 (delta_y) and 97 (delta_x)
CGEvent(event_type, point, delta_y, delta_x) ==
    [event_type |-> event_type, point |-> point, delta_y |-> delta_y,
     delta_x |-> delta_x]

\* Faulty variant of ScrollWheelEvent: the horizontal delta is not looked at
ScrollWheelVerticalOnly(delta_y, delta_x) ==
    IF delta_y > 0 THEN Scroll("Up")
    ELSE IF delta_y < 0 THEN Scroll("Down")
    ELSE NoEvent

\* CGEventType::ScrollWheel => { if delta_y > 0 .. else if delta_y < 0 .. else
\* if delta_x < 0 .. else if delta_x > 0 .. else { None } }
ScrollWheelEvent(delta_y, delta_x) ==
    IF delta_y > 0 THEN Scroll("Up")
    ELSE IF delta_y < 0 THEN Scroll("Down")
    ELSE IF delta_x < 0 THEN Scroll("Right")
    ELSE IF delta_x > 0 THEN Scroll("Left")
    ELSE NoEvent

\* mouse_on_event_callback, the construction of mouse_event
DarwinMouseEvent(rec) ==
    LET x == AsI32(rec.point[1])
        y == AsI32(rec.point[2])
    IN  IF rec.event_type = LeftMouseDown THEN PressAt("Left", x, y)
        ELSE IF rec.event_type = LeftMouseUp THEN Release("Left")
        ELSE IF rec.event_type = RightMouseDown THEN PressAt("Right", x, y)
        ELSE IF rec.event_type = RightMouseUp THEN Release("Right")
        ELSE IF rec.event_type = OtherMouseDown THEN PressAt("Middle", x, y)
        ELSE IF rec.event_type = OtherMouseUp THEN Release("Middle")
        ELSE IF rec.event_type = MouseMoved THEN AbsoluteMove(x, y)
        ELSE IF rec.event_type = ScrollWheel
        THEN ScrollWheelEvent(rec.delta_y, rec.delta_x)
        ELSE IF rec.event_type = KeyDown THEN KeyDownEvent
        ELSE IF rec.event_type = KeyUp THEN KeyUpEvent
        ELSE NoEvent

\* the construction of mouse_event in the handler of the backend
MouseEventOf(rec) ==
    IF backend = "nix" THEN NixMouseEvent(rec)
    ELSE IF backend = "windows" THEN WindowsMouseEvent(rec)
    ELSE DarwinMouseEvent(rec)

---------------------------------------------------------------------------
(* Raw events and their way to the callbacks *)

SetThread(t, u) == (threads \ {t}) \cup {u}

\* Thread t has the raw source of the event open: the device file of device
\* d, or (d = 0) an installed hook / event tap
Receives(t, d) ==
    \/ t.kind = "reader" /\ t.st = "reading" /\ t.dev = d
    \/ t.kind = "tap" /\ t.st = "installed" /\ d = 0

\* callback(&mouse_event): one more invocation of callback cb with event ev by
\* the dispatching thread src
Invoke(ev, cb, src) == delivered (+) SetToBag({<<ev, cb, src>>})

\* A device reader thread, one turn of its loop: read(..) one record and
\* tx.send(buffer).unwrap().  The send fails once the receiver is dropped, and
\* the unwrap then ends the thread
ReaderAfterSend(t) ==
    IF chans[t.chan].rx = "dispatching" THEN t ELSE [t EXCEPT !.st = "dead"]

\* the channel after the reader threads in readers have sent the record
ChannelAfterSend(c, readers, ev) ==
    IF chans[c].rx = "dispatching" /\ \E t \in readers : t.chan = c
    THEN [chans[c] EXCEPT !.q = Append(@, ev)]
    ELSE chans[c]

\* The hardware emits a raw event (raw records the normalization ignores are
\* left out).  On device d of the device-file backend, every reader thread
\* that has the device file open reads its own copy of the record and sends
\* it on its channel.  On windows / darwin (d = 0) the OS queues a call of
\* the handler for every installed hook / event tap
Emit(d) ==
    LET ev == Event(nev + 1, d)
        readers == {t \in threads : t.kind = "reader" /\ Receives(t, d)}
    IN  /\ nev' = nev + 1
        /\ threads' = {IF Receives(t, d)
                       THEN IF t.kind = "tap" THEN [t EXCEPT !.buf = Append(@, ev)]
                                              ELSE ReaderAfterSend(t)
                       ELSE t : t \in threads}
        /\ chans' = [c \in DOMAIN chans |-> ChannelAfterSend(c, readers, ev)]
        /\ UNCHANGED <<handler_vars, glob_vars, injected, backend, handles, callbacks, callback_counter, is_listening,
                       last, nhooks, delivered, ndev, lock, TAP_EVENT_REF,
                       hooked_at>>

\* The record a reader thread sends when its read(..) failed: the return
\* value of read is not looked at, and the buffer is still as the turn of the
\* loop initialised it (r#type: 0, code: 0, value: 0).  It is no record of the
\* hardware (n = 0)
ZeroedBuffer(d) == Event(0, d)

\* A reader thread whose read(..) fails: it sends the zeroed buffer like any
\* record and goes on with its loop
ReadFails(t) ==
    /\ t \in threads
    /\ t.kind = "reader"
    /\ t.st = "reading"
    /\ threads' = SetThread(t, ReaderAfterSend(t))
    /\ chans' = [c \in DOMAIN chans |-> ChannelAfterSend(c, {t}, ZeroedBuffer(t.dev))]
    /\ UNCHANGED <<handler_vars, glob_vars, injected, backend, handles, callbacks,
                   callback_counter, is_listening, last, nhooks, nev, delivered,
                   ndev, lock, TAP_EVENT_REF, hooked_at>>

\* Faulty variant of Continues: the zeroed buffer is taken for an event
ContinuesNever(ev) == FALSE

\* the dispatch thread constructs no mouse_event from the record and continues
\* with the next one: the case of the zeroed buffer (the records of the
\* hardware for which it continues are left out of the model)
Continues(ev) == ev.n = 0 /\ NixMouseEvent(InputEvent(0, 0, 0)) = NoEvent

\* The dispatch thread of start_nix_listener: for received in rx { .. } takes
\* the next record, and for callback in callbacks.lock().unwrap().values()
\* locks the map and starts to iterate over it
Dispatch(c) ==
    /\ c \in DOMAIN chans
    /\ chans[c].rx = "dispatching"
    /\ chans[c].q # <<>>
    /\ IF Continues(Head(chans[c].q)) THEN ~(lock.held /\ lock.by = c) ELSE CanLock
    /\ chans' = [chans EXCEPT ![c].q = Tail(@)]
    /\ lock' = IF Continues(Head(chans[c].q)) THEN lock
               ELSE LockedBy(c, Head(chans[c].q), DOMAIN callbacks.map)
    /\ UNCHANGED <<handler_vars, glob_vars, injected, backend, handles, callbacks, callback_counter, is_listening,
                   last, nhooks, threads, nev, delivered, ndev, TAP_EVENT_REF,
                   hooked_at>>

\* for received in rx ends when the channel is empty and every Sender is
\* dropped: the tx of start_nix_listener is dropped when the function
\* returns, the clones are owned by the reader threads
DispatchEnds(c) ==
    /\ c \in DOMAIN chans
    /\ chans[c].rx = "dispatching"
    /\ chans[c].q = <<>>
    /\ ~\E t \in threads : t.kind = "reader" /\ t.chan = c /\ t.st = "reading"
    /\ chans' = [chans EXCEPT ![c].rx = "ended"]
    /\ UNCHANGED <<handler_vars, glob_vars, injected, backend, handles, callbacks, callback_counter, is_listening,
                   last, nhooks, threads, nev, delivered, ndev, lock,
                   TAP_EVENT_REF, hooked_at>>

\* low_level_mouse_handler / mouse_on_event_callback, called by the OS on the
\* listener thread: match (mouse_event, &mut CALLBACKS) { (Some(event),
\* Some(callbacks)) => for callback in callbacks.lock().unwrap().values() ..
TapDispatch(t) ==
    /\ t \in threads
    /\ t.kind = "tap"
    /\ t.st = "installed"
    /\ t.buf # <<>>
    /\ callbacks.some => CanLock
    /\ threads' = SetThread(t, [t EXCEPT !.buf = Tail(t.buf)])
    /\ lock' = IF callbacks.some
               THEN LockedBy(t.h, Head(t.buf), DOMAIN callbacks.map)
               ELSE lock
    /\ UNCHANGED <<handler_vars, glob_vars, injected, backend, handles, callbacks, callback_counter, is_listening,
                   last, nhooks, chans, nev, delivered, ndev, TAP_EVENT_REF,
                   hooked_at>>

\* The loop over the values of the map reaches the callback registered under
\* id (the order of a HashMap is unspecified) and invokes it.  When the
\* callback returns the loop goes on, and after the last callback the guard
\* is dropped; a callback that does not return keeps the map locked
InvokeCallback(id, returns) ==
    /\ lock.held
    /\ ~lock.stuck
    /\ id \in lock.todo
    /\ delivered' = Invoke(lock.ev, callbacks.map[id], lock.by)
    /\ lock' = IF returns THEN LockedBy(lock.by, lock.ev, lock.todo \ {id})
                          ELSE [lock EXCEPT !.stuck = TRUE]
    /\ UNCHANGED <<handler_vars, glob_vars, injected, backend, handles, callbacks, callback_counter, is_listening,
                   last, nhooks, chans, threads, nev, ndev, TAP_EVENT_REF,
                   hooked_at>>

\* The dispatch thread of the device-file backend after a panic in its loop
\* over the callbacks: the guard is dropped while the thread unwinds, which
\* poisons the mutex, and the receiver of the channel is dropped with the
\* thread
Unwinds(c) == [chans EXCEPT ![c].rx = "panicked"]

\* The loop over the values of the map invokes the callback registered under
\* id, and the callback panics.  (On windows / darwin the handler is an extern
\* fn called by the OS, out of which a panic does not unwind.)
CallbackPanics(id) ==
    /\ backend = "nix"
    /\ lock.held
    /\ ~lock.stuck
    /\ id \in lock.todo
    /\ delivered' = Invoke(lock.ev, callbacks.map[id], lock.by)
    /\ lock' = Unlocked
    /\ chans' = Unwinds(lock.by)
    /\ UNCHANGED <<handler_vars, glob_vars, injected, backend, handles, callbacks,
                   callback_counter, is_listening, last, nhooks, threads, nev,
                   ndev, TAP_EVENT_REF, hooked_at>>

\* What callbacks.lock() does in a thread that holds the guard of the mutex:
\* std::sync::Mutex::lock does not return then, it deadlocks or panics.  The
\* panic is taken for the device-file backend
RelockOutcomes == IF backend = "nix" THEN {"deadlock", "panic"} ELSE {"deadlock"}

\* the lock and the dispatch thread after the callback under id has called
\* callbacks.lock() from inside the loop
Relock(id, outcome) ==
    /\ lock' = IF outcome = "panic" THEN Unlocked ELSE [lock EXCEPT !.stuck = TRUE]
    /\ chans' = IF outcome = "panic" THEN Unwinds(lock.by) ELSE chans

\* The loop over the values of the map invokes the callback registered under
\* id, and the callback calls hook, unhook or unhook_all on the map the loop
\* iterates over: through a clone of the manager it captured (device-file
\* backend), or through a manager it has or makes (static map).  Each of the
\* three begins with callbacks.lock()
CallbackCalls(id, outcome) ==
    /\ backend = "nix" => 2 \in handles
    /\ lock.held
    /\ ~lock.stuck
    /\ id \in lock.todo
    /\ outcome \in RelockOutcomes
    /\ delivered' = Invoke(lock.ev, callbacks.map[id], lock.by)
    /\ Relock(id, outcome)
    /\ UNCHANGED <<handler_vars, glob_vars, injected, backend, handles, callbacks,
                   callback_counter, is_listening, last, nhooks, threads, nev,
                   ndev, TAP_EVENT_REF, hooked_at>>

\* hook (of a manager that listens), unhook or unhook_all when the mutex is
\* poisoned: callbacks.lock().unwrap() panics with the PoisonError
PoisonedCall(h, op) ==
    /\ h \in handles
    /\ Running
    /\ ~lock.held
    /\ Poisoned
    /\ op = "hook" => is_listening[h]
    /\ last' = Call(op, "panic", 0)
    /\ UNCHANGED <<handler_vars, glob_vars, injected, backend, handles, callbacks,
                   callback_counter, is_listening, nhooks, chans, threads, nev,
                   delivered, ndev, lock, TAP_EVENT_REF, hooked_at>>

---------------------------------------------------------------------------
(* The handler of a raw record, from the record to the callbacks *)

\* the handler goes on to the loop over the callbacks
IsEvent(me) == me # NoEvent /\ me # Panicked

\* the thread that invokes the callbacks for a record thread t received: the
\* dispatch thread of the channel of a reader, or the listener thread itself
Dispatcher(t) == IF t.kind = "reader" THEN t.chan ELSE t.h

\* One raw record on its whole way.  On the device-file backend reader thread
\* t reads the record and sends it, and the dispatch thread of its channel
\* receives it, constructs mouse_event (or continues) and invokes every
\* callback in the map; on windows / darwin the OS calls the handler of the
\* installed hook / event tap, which constructs mouse_event and, for
\* (Some(event), Some(callbacks)), invokes every callback in the map.  Every
\* callback returns
Handle(t, rec) ==
    /\ t \in threads
    /\ Receives(t, t.dev)
    /\ t.kind = "reader" => chans[t.chan].rx = "dispatching"
    /\ callbacks.some => CanLock
    /\ LET ev  == Event(nev + 1, t.dev)
           me  == MouseEventOf(rec)
           ids == IF IsEvent(me) /\ callbacks.some THEN DOMAIN callbacks.map ELSE {}
       IN  /\ received' = rec
           /\ mouse_event' = me
           /\ invoked' = ids
           /\ delivered' = delivered (+)
                  SetToBag({<<ev, callbacks.map[id], Dispatcher(t)>> : id \in ids})
    /\ nev' = nev + 1
    /\ UNCHANGED <<glob_vars, injected, backend, handles, callbacks, callback_counter,
                   is_listening, last, nhooks, chans, threads, ndev, lock,
                   TAP_EVENT_REF, hooked_at>>

---------------------------------------------------------------------------
(* The calls of the interface on two handles sharing one callback map *)

\* fails: the device files whose open may fail in a listener start (0: none)
Calls(maxHooks, ids, fails) ==
    \/ \E h \in Handles, failAt \in fails, ovf \in {"wrap", "panic"} :
          /\ nhooks < maxHooks
          /\ failAt <= ndev
          /\ is_listening[h] \/ Len(chans) < MaxStarts
          /\ HookNix(h, failAt, ovf)
    \/ \E h \in Handles, ovf \in {"wrap", "panic"} :
          /\ nhooks < maxHooks
          /\ HookGlobal(h, ovf)
    \/ \E h \in Handles, id \in ids : unhook(h, id)
    \/ \E h \in Handles : unhook_all(h)
    \/ Clone
    \/ NewInstance

Next ==
    \/ Calls(MaxHooks, UnhookIds, 0 .. NumDevices)
    \/ \E t \in threads, ok \in BOOLEAN : Install(t, ok)
    \/ \E t \in threads : Enable(t)

Spec == Init /\ [][Next]_vars

---------------------------------------------------------------------------
(* The calls together with the raw events and the listener threads *)

\* a mouse device of the device-file backend emits one more raw event
EmitsDevice(maxEvents) ==
    /\ nev < maxEvents
    /\ backend = "nix"
    /\ \E d \in Devices : Emit(d)

\* the hardware emits one more raw event
Emits(maxEvents) ==
    \/ EmitsDevice(maxEvents)
    \/ nev < maxEvents /\ backend # "nix" /\ Emit(0)

\* the dispatch thread of a channel dispatches; every callback returns
DispatchesChannel ==
    \/ \E c \in DOMAIN chans : Dispatch(c)
    \/ \E id \in lock.todo : InvokeCallback(id, TRUE)

\* the listener threads dispatch; every callback returns
Dispatches ==
    \/ DispatchesChannel
    \/ \E t \in threads : TapDispatch(t)

NextListen ==
    \/ Calls(MaxListenHooks, {0}, 0 .. NumDevices)
    \/ \E t \in threads, ok \in BOOLEAN : Install(t, ok)
    \/ \E t \in threads : Enable(t)
    \/ Emits(MaxListenEvents)
    \/ Dispatches
    \/ \E id \in lock.todo : InvokeCallback(id, FALSE)

SpecListen == Init /\ [][NextListen]_vars

---------------------------------------------------------------------------
(* The device-file backend, one handle: listener starts that fail and succeed *)

NextOpen ==
    \/ \E failAt \in 0 .. ndev, ovf \in {"wrap", "panic"} :
          /\ nhooks < MaxDeliverHooks
          /\ is_listening[1] \/ Len(chans) < MaxStarts
          /\ HookNix(1, failAt, ovf)
    \/ unhook(1, 0)
    \/ EmitsDevice(MaxEvents)
    \/ DispatchesChannel

SpecOpen == Init /\ [][NextOpen]_vars

---------------------------------------------------------------------------
(* Listeners that started: the calls, the events and the dispatch, with     *)
(* callbacks that return                                                    *)

NextDeliver ==
    \/ Calls(MaxDeliverHooks, {0}, {0})
    \/ \E t \in threads, ok \in BOOLEAN : Install(t, ok)
    \/ \E t \in threads : Enable(t)
    \/ Emits(MaxEvents)
    \/ Dispatches

SpecDeliver == Init /\ [][NextDeliver]_vars

---------------------------------------------------------------------------
(* The channel of one listener of the device-file backend, with scheduled   *)
(* threads                                                                  *)

NextQueue ==
    \/ \E ovf \in {"wrap", "panic"} :
          /\ nhooks < MaxDeliverHooks
          /\ HookNix(1, 0, ovf)
    \/ unhook(1, 0)
    \/ unhook_all(1)
    \/ EmitsDevice(MaxEvents)
    \/ DispatchesChannel

\* The listener threads are scheduled: a dispatch thread that has a record in
\* its channel and can lock the map goes on, and so does the loop over the
\* callbacks when the callback it invoked returns
SpecQueue == Init /\ [][NextQueue]_vars /\ WF_vars(DispatchesChannel)

---------------------------------------------------------------------------
(* The life of the listener: managers are dropped, listener threads end *)

NextLife ==
    \/ \E ovf \in {"wrap", "panic"} :
          /\ nhooks < MaxDeliverHooks
          /\ HookNix(1, 0, ovf) \/ HookGlobal(1, ovf) \/ HookGlobal(2, ovf)
    \/ NewInstance
    \/ \E h \in Handles : Drop(h)
    \/ \E t \in threads : Install(t, TRUE)
    \/ \E t \in threads : Enable(t)
    \/ \E t \in threads : GetMessageReturns(t)
    \/ \E c \in DOMAIN chans : DispatchEnds(c)
    \/ Emits(MaxEvents)
    \/ Dispatches

SpecLife == Init /\ [][NextLife]_vars

---------------------------------------------------------------------------
(* The long run of one handle: hook calls past the wrap of the u8 counter *)

NextWrap ==
    \/ \E failAt \in 0 .. ndev, ovf \in {"wrap", "panic"} :
          /\ nhooks < MaxWrapHooks
          /\ is_listening[1] \/ Len(chans) < MaxStarts
          /\ HookNix(1, failAt, ovf)
    \/ \E ovf \in {"wrap", "panic"} :
          /\ nhooks < MaxWrapHooks
          /\ HookGlobal(1, ovf)
    \/ \E id \in UnhookIds : unhook(1, id)
    \/ \E t \in threads, ok \in BOOLEAN : Install(t, ok)
    \/ \E t \in threads : Enable(t)

SpecWrap == Init /\ [][NextWrap]_vars

---------------------------------------------------------------------------
(* The handlers of the raw records, over the records a backend can get; on   *)
(* the device-file backend the records of the first device                  *)

\* The records read from a device file: the event types of the kernel (0 is
\* EV_SYN), codes of axes (2 is REL_Z) and of buttons (275 is BTN_SIDE), and
\* values from the whole range of a c_int (2 is the value of a key record
\* that the kernel repeats)
InputEvents ==
    {InputEvent(type, code, value) :
        type \in {0, EV_KEY, EV_REL, EV_ABS},
        code \in {REL_X, REL_Y, 2, REL_HWHEEL, REL_WHEEL,
                  BTN_LEFT, BTN_RIGHT, BTN_MIDDLE, 275},
        value \in {MinI32, -1, 0, 1, 2, MaxI32}}

\* The signed 16-bit wheel deltas the high word of mouse_data carries
WheelDeltas == {-32768, -120, 0, 1, 120, 240, 32767}

\* The calls of the low-level mouse hook: the messages the handler names and
\* one it does not (523 is WM_XBUTTONDOWN), points from the whole range of a
\* c_long, and mouse_data with a wheel delta in its high word
MouseMessages ==
    {MouseMessage(w_param, pt, <<delta % WordCard, 0>>) :
        w_param \in {WM_MOUSEMOVE, WM_LBUTTONDOWN, WM_LBUTTONUP, WM_RBUTTONDOWN,
                     WM_RBUTTONUP, WM_MBUTTONDOWN, WM_MBUTTONUP, WM_MOUSEWHEEL,
                     WM_MOUSEHWHEEL, 523},
        pt \in {<<1919, -1>>, <<MinI32, MaxI32>>},
        delta \in WheelDeltas}

\* The calls of the event tap: the variants of CGEventType, locations, and
\* scroll deltas of either sign (a c_long, of which the handler looks at the
\* sign)
CGEvents ==
    {CGEvent(event_type, point, delta_y, delta_x) :
        event_type \in {LeftMouseDown, LeftMouseUp, RightMouseDown, RightMouseUp,
                        MouseMoved, LeftMouseDragged, RightMouseDragged, KeyDown,
                        KeyUp, ScrollWheel, OtherMouseDown, OtherMouseUp,
                        OtherMouseDragged},
        point \in {<<Double("finite", 1919), Double("nan", 0)>>,
                   <<Double("below", 0), Double("above", 0)>>},
        delta_y \in {MinI32, 0, 1},
        delta_x \in {MinI32, -1, 0, 1, MaxI32}}

\* the raw records the handler of the backend can be given
RawRecords ==
    IF backend = "nix" THEN InputEvents
    ELSE IF backend = "windows" THEN MouseMessages
    ELSE CGEvents

NextHandle ==
    \/ \E ovf \in {"wrap", "panic"} :
          /\ nhooks < MaxRecordHooks
          /\ HookNix(1, 0, ovf) \/ HookGlobal(1, ovf)
    \/ \E t \in threads : Install(t, TRUE)
    \/ \E t \in threads : Enable(t)
    \/ \E t \in threads, rec \in RawRecords :
          /\ nev < MaxRecords
          /\ t.dev \in {0, 1}
          /\ Handle(t, rec)

SpecHandle == Init /\ [][NextHandle]_vars

---------------------------------------------------------------------------
(* The loop of start_nix_listener over the device files *)

\* if let Ok(rel_path) = file.read_link() { if rel_path.is_absolute() { file =
\* rel_path } else { file.pop(); file.push(rel_path); file =
\* canonicalize(file) } }; let path = file.display().to_string(): a relative
\* target is resolved to the canonical path of the device node, an absolute
\* target is taken as it is written, a file that is no symlink keeps its own
\* path
ResolvedPath(f) ==
    IF f.link = "relative" THEN CanonicalPath(f.dev)
    ELSE IF f.link = "absolute" THEN f.target
    ELSE f.path

\* previous_paths.contains(&path)
Contains(paths, path) == \E i \in DOMAIN paths : paths[i] = path

\* for file in glob(by-id).chain(glob(by-path)) { .. if
\* previous_paths.contains(&path) { continue; } previous_paths.push(path);
\* open(path); thread::spawn(reader) }, every open succeeding: the paths that
\* are opened, each with a reader thread of its own
RECURSIVE VisitFiles(_, _)
VisitFiles(fs, previous) ==
    IF fs = <<>> THEN previous
    ELSE LET path == ResolvedPath(Head(fs))
         IN  VisitFiles(Tail(fs), IF Contains(previous, path) THEN previous
                                  ELSE Append(previous, path))

\* The files the globs can yield: up to MaxFiles symlinks and plain files that
\* lead to the devices 1 .. n
GlobResults(n) ==
    {fs \in UNION {[1 .. k -> (1 .. n) \X {"relative", "absolute", "none"}
                                \X {"canonical", "other"}] : k \in 1 .. MaxFiles} :
        /\ {fs[i][1] : i \in DOMAIN fs} = 1 .. n
        /\ \A i \in DOMAIN fs : fs[i][2] # "absolute" => fs[i][3] = "canonical"}

\* the file of the i-th entry of a glob result
FileOf(fs, i) ==
    File(i, fs[i][1], fs[i][2],
         IF fs[i][3] = "canonical" THEN CanonicalPath(fs[i][1]) ELSE OtherPath(fs[i][1]))

\* The manager after new(), with any files under /dev/input/by-id and
\* /dev/input/by-path
InitGlob ==
    /\ InitManager
    /\ backend = "nix"
    /\ ndev \in 1 .. NumDevices
    /\ \E fs \in GlobResults(ndev) : files = [i \in DOMAIN fs |-> FileOf(fs, i)]

\* The loop over the files in a listener start in which every open succeeds
OpenFiles ==
    /\ backend = "nix"
    /\ previous_paths = <<>>
    /\ previous_paths' = VisitFiles(files, <<>>)
    /\ UNCHANGED <<handler_vars, files, injected, backend, handles, callbacks,
                   callback_counter, is_listening, last, nhooks, chans, threads,
                   nev, delivered, ndev, lock, TAP_EVENT_REF, hooked_at>>

NextGlob == OpenFiles

SpecGlob == InitGlob /\ [][NextGlob]_vars

---------------------------------------------------------------------------
(* get_position *)

\* X11MouseManager::get_position: Ok((x, y)), or Err(X11PointerWindowMismatch)
\* when XQueryPointer returns False
X11GetPosition == {"Ok", "X11PointerWindowMismatch"}

\* UInputMouseManager::get_position: the body is unimplemented!(), the
\* Err(Error::NotImplemented) above it is a comment
UInputGetPosition == {"panic"}

\* WindowsMouseManager::get_position: Err(CustomError(..)) when GetCursorPos
\* fails; the try_into() of a c_long to an i32 is always Ok on windows
WindowsGetPosition == {"Ok", "CustomError"}

\* DarwinMouseManager::get_position: Err(CGCouldNotCreateEvent) when
\* CGEventCreate returns null
DarwinGetPosition == {"Ok", "CGCouldNotCreateEvent"}

\* What get_position can do on the backend; the manager of the device-file
\* backend is the X11 one in a build with the feature x11 and the uinput one
\* in a build without it
GetPositionResults ==
    IF backend = "nix" THEN X11GetPosition \cup UInputGetPosition
    ELSE IF backend = "windows" THEN WindowsGetPosition
    ELSE DarwinGetPosition

get_position(h, res) ==
    /\ h \in handles
    /\ Running
    /\ res \in GetPositionResults
    /\ last' = Call("get_position", res, 0)
    /\ UNCHANGED <<handler_vars, glob_vars, injected, backend, handles, callbacks,
                   callback_counter, is_listening, nhooks, chans, threads, nev,
                   delivered, ndev, lock, TAP_EVENT_REF, hooked_at>>

\* the calls of one manager, get_position among them
NextPosition ==
    \/ \E ovf \in {"wrap", "panic"} :
          /\ nhooks < MaxDeliverHooks
          /\ HookNix(1, 0, ovf) \/ HookGlobal(1, ovf)
    \/ \E id \in UnhookIds : unhook(1, id)
    \/ unhook_all(1)
    \/ \E res \in GetPositionResults : get_position(1, res)

SpecPosition == Init /\ [][NextPosition]_vars

---------------------------------------------------------------------------
(* Vocabulary of the properties *)

\* the ids under which a callback is registered, now and after the step
Registered == DOMAIN callbacks.map

RegisteredNext == DOMAIN callbacks'.map

\* the step is a hook call that registered a callback and returned Ok(id)
HookReturned(id) == nhooks' = nhooks + 1 /\ last'.res = "Ok" /\ last'.id = id

\* the step is a hook call that registered a callback (returning or panicking)
HookInserted == nhooks' = nhooks + 1

\* the step is a call of unhook(id) / of unhook_all, on some handle
IsUnhook(id) ==
    /\ last'.op = "unhook"
    /\ last'.id = id
    /\ \E h \in Handles : unhook(h, id)

IsUnhookAll ==
    /\ last'.op = "unhook_all"
    /\ \E h \in Handles : unhook_all(h)

\* the ids a step can concern: the registered ones and the one of the call
Concerned == Registered \cup RegisteredNext \cup {last'.id}

\* the entry under id is the same before and after the step
Kept(id) == id \in RegisteredNext /\ callbacks'.map[id] = callbacks.map[id]

---------------------------------------------------------------------------
(* Properties *)

\* C1: the id a successful hook returns differs from the id of every callback
\* that is registered at the moment of the call, for any number of hook calls
\* (also for more calls than the 8-bit counter has values).
C1_HookIdIsFresh ==
    [][\A id \in CallbackId : HookReturned(id) => id \notin Registered]_vars

\* C2: a registered callback stays registered under its id, as the same
\* callback, until unhook(id) or unhook_all is called: no hook call removes or
\* replaces it.
C2_StaysUntilUnhooked ==
    [][\A id \in Registered : Kept(id) \/ IsUnhook(id) \/ IsUnhookAll]_vars

\* C3: after hook returned id, the first unhook(id) returns Ok and removes
\* exactly the entry of id; id is then absent, it becomes registered again only
\* by a hook call returning id, and unhook(id) fails with UnhookFailed while it
\* is absent, so a second unhook(id) fails.
C3_UnhookSucceedsOnce ==
    [][\A id \in Concerned :
          /\ HookReturned(id) => id \in RegisteredNext
          /\ (id \in Registered /\ id \notin RegisteredNext) => (IsUnhook(id) \/ IsUnhookAll)
          /\ (IsUnhook(id) /\ id \in Registered) =>
                 /\ last'.res = "Ok"
                 /\ RegisteredNext = Registered \ {id}
                 /\ \A k \in RegisteredNext : Kept(k)
          /\ (IsUnhook(id) /\ last = Call("unhook", "Ok", id)) => last'.res = "UnhookFailed"
          /\ (id \notin Registered /\ id \in RegisteredNext) => HookInserted /\ last'.id = id
          /\ (IsUnhook(id) /\ id \notin Registered) => last'.res = "UnhookFailed"]_vars

\* C3 witness: unhook(id) has just returned Ok, id is gone and another callback
\* is still registered
C3_Witness ==
    /\ last.op = "unhook" /\ last.res = "Ok"
    /\ last.id \notin Registered
    /\ Registered # {}

\* C4: unhook(id) for an id that is not registered returns UnhookFailed and
\* leaves the entries of the map, the id counters and the is-listening flags
\* unchanged; no unhook call removes or changes an entry with a different id.
C4_UnhookAbsentFails ==
    [][\A id \in Concerned :
          /\ (IsUnhook(id) /\ id \notin Registered) =>
                 /\ last' = Call("unhook", "UnhookFailed", id)
                 /\ callbacks'.map = callbacks.map
                 /\ UNCHANGED <<callback_counter, is_listening>>
          /\ IsUnhook(id) => \A k \in Registered \ {id} : Kept(k)]_vars

\* C4 witness: unhook failed on a manager on which hook was never called
C4_Witness ==
    /\ last = Call("unhook", "UnhookFailed", 5)
    /\ nhooks = 0

\* C5: after unhook_all returned, no id is registered, and as long as no hook
\* is called every unhook(id) fails with UnhookFailed.
C5_UnhookAfterUnhookAllFails ==
    [][/\ IsUnhookAll => RegisteredNext = {}
       /\ \A id \in Concerned :
             (IsUnhook(id) /\ (last.op = "unhook_all" \/ Registered = {})) =>
                 /\ last'.res = "UnhookFailed"
                 /\ RegisteredNext = {}]_vars

\* C5 witness: unhook_all has returned after callbacks were registered
C5_Witness ==
    /\ last.op = "unhook_all"
    /\ nhooks >= 2
    /\ Registered = {}

IsFailedStart(h, failAt) ==
    /\ failAt \in Devices
    /\ NeedsStart(h)
    /\ \E ovf \in {"wrap", "panic"} : HookNix(h, failAt, ovf)

\* the listener threads that read raw events and belong to a start that succeeded
DispatchingChans == {c \in DOMAIN chans : chans[c].rx = "dispatching"}

StartedReaders == {t \in threads : t.kind = "reader" /\ t.chan \in DispatchingChans}

Taps == {t \in threads : t.kind = "tap"}

\* the invocations of callback cb with raw event ev
Invocations(ev, cb) == {x \in BagToSet(delivered) : x[1] = ev /\ x[2] = cb}

\* C7: in one process the listener is started at most once, whatever handles
\* (one handle, a clone, several instances) the successful hook calls go
\* through: at most one dispatch thread, no device file opened twice, the OS
\* hook / event tap installed at most once, and no raw event reaches a
\* callback twice.
C7_ListenerStartedAtMostOnce ==
    /\ Cardinality(DispatchingChans) <= 1
    /\ \A d \in Devices : Cardinality({t \in StartedReaders : t.dev = d}) <= 1
    /\ Cardinality(Taps) <= 1
    /\ \A x \in BagToSet(delivered) :
          /\ CopiesIn(x, delivered) = 1
          /\ Invocations(x[1], x[2]) = {x}

\* C8: when the open of a device file fails in the listener start a hook call
\* triggered, that call returns the error, registers no callback, leaves the
\* id counters unchanged and leaves the is-listening flag false; the next
\* hook call on the handle starts the listener again.
C8_FailedStartChangesNothing ==
    [][\A h \in Handles :
          /\ \A failAt \in Devices : IsFailedStart(h, failAt) =>
                 /\ last' = Call("hook", "PermissionDenied", 0)
                 /\ UNCHANGED <<callbacks, callback_counter, nhooks>>
                 /\ ~is_listening'[h]
          /\ \A failAt \in 0 .. ndev, ovf \in {"wrap", "panic"} :
                 (HookNix(h, failAt, ovf) /\ ~is_listening[h]) =>
                     Len(chans') = Len(chans) + 1]_vars

\* C8 witness: hook returned PermissionDenied after a device file was opened,
\* nothing is registered and no flag is set
C8_Witness ==
    /\ last = Call("hook", "PermissionDenied", 0)
    /\ threads # {}
    /\ Registered = {}
    /\ \A h \in Handles : ~is_listening[h]

\* C9: on every backend a raw source that failed to open or install makes the
\* hook call that triggered the start return an error: no handle has its
\* listener marked started by a hook that returned Ok while the hook / event
\* tap it started failed to install.
C9_InstallFailureIsReturned ==
    \A t \in threads : (t.kind = "tap" /\ t.st = "failed") => ~is_listening[t.h]

\* C10: on the device-file backend the start stops at the first device file
\* that cannot be opened (no later file is opened), hook returns
\* PermissionDenied, no dispatch thread is started for that start, and no
\* callback is ever invoked with an event read by its reader threads.
C10_FirstOpenFailureAborts ==
    /\ [](\A c \in DOMAIN chans : chans[c].rx = "dropped" =>
             /\ chans[c].q = <<>>
             /\ \A x \in BagToSet(delivered) : x[3] # c)
    /\ [][/\ \A h \in Handles, failAt \in Devices : IsFailedStart(h, failAt) =>
                 /\ last'.res = "PermissionDenied"
                 /\ chans'[Len(chans')].rx = "dropped"
                 /\ {t.dev : t \in threads' \ threads} = {d \in Devices : d < failAt}
          /\ \A c \in DOMAIN chans : chans[c].rx = "dropped" => chans'[c].rx = "dropped"]_vars

\* C10 witness: a reader thread of a failed start has read an event and ended,
\* and a callback registered by a later hook was invoked
C10_Witness ==
    /\ \E t \in threads : t.st = "dead"
    /\ delivered # EmptyBag

\* how often callback cb was invoked with raw event ev, by whatever thread
InvokedTimes(ev, cb) ==
    BagCardinality([x \in Invocations(ev, cb) |-> delivered[x]])

\* the step is the start of a dispatch: a listener thread takes an event and
\* locks the map to iterate over it
DispatchBegins ==
    \/ \E c \in DOMAIN chans : Dispatch(c)
    \/ \E t \in threads : callbacks.some /\ TapDispatch(t)

\* C11: the dispatch of an event invokes the callbacks registered when it
\* runs (after an unhook: the remaining ones), each once, and no callback is
\* invoked more than once with the same event.
C11_EachCallbackOncePerEvent ==
    /\ [](\A x \in BagToSet(delivered) : InvokedTimes(x[1], x[2]) = 1)
    /\ [](lock.held =>
             \A id \in Registered \ lock.todo :
                 <<lock.ev, callbacks.map[id], lock.by>> \in BagToSet(delivered))
    /\ [][DispatchBegins => lock'.todo = Registered]_vars

\* the step invokes the callback registered under id
Invokes(id) == InvokeCallback(id, TRUE) \/ InvokeCallback(id, FALSE)

\* C12: a callback receives the events of one device file in the order the
\* device emitted them: when it is invoked with an event emitted after it was
\* registered, and it was not invoked with this event before, then it has not
\* been invoked yet with an event the same device emitted later.
C12_DeviceOrderKept ==
    [][\A id \in lock.todo :
          (/\ backend = "nix"
           /\ Invokes(id)
           /\ lock.ev.n > hooked_at[callbacks.map[id]]
           /\ InvokedTimes(lock.ev, callbacks.map[id]) = 0) =>
              \A y \in BagToSet(delivered) :
                  (y[2] = callbacks.map[id] /\ y[1].dev = lock.ev.dev) =>
                      y[1].n < lock.ev.n]_vars

\* C13: the hook calls of several threads, through handles that share one
\* map, return pairwise distinct ids and the map then holds the callbacks of
\* all of them: every hook call that returns Ok adds one entry to the map,
\* under an id for which no callback is registered.
C13_ConcurrentHooksAllRegistered ==
    [][(HookInserted /\ last'.res = "Ok") =>
          /\ last'.id \notin Registered
          /\ Cardinality(RegisteredNext) = Cardinality(Registered) + 1]_vars

\* the n-th raw event waits in channel c
InQueue(c, n) ==
    /\ c \in DOMAIN chans
    /\ \E i \in DOMAIN chans[c].q : chans[c].q[i].n = n

\* the dispatch thread of channel c is in its loop over the callbacks with the
\* n-th raw event
InDispatch(c, n) == lock.held /\ lock.by = c /\ lock.ev.n = n

\* the step ends a dispatch: the last callback returned and the map is unlocked
DispatchEnded == lock.held /\ ~lock'.held

\* C14: no event is dropped: every record a reader thread of a running
\* listener has read and sent is taken from the channel by the dispatch
\* thread, whose loop over the callbacks comes to its end, and at that end
\* every callback registered at the dispatch has been invoked with the event;
\* under fair scheduling, with callbacks that return, whatever calls of hook,
\* unhook and unhook_all run meanwhile.
C14_NoEventDropped ==
    /\ \A c \in 1 .. MaxStarts, n \in 1 .. MaxEvents :
          InQueue(c, n) ~> (~InQueue(c, n) /\ ~InDispatch(c, n))
    /\ [][DispatchEnded =>
             \A id \in Registered :
                 <<lock.ev, callbacks.map[id], lock.by>> \in BagToSet(delivered')]_vars

\* C14 witness: a record that went through the channel was dispatched to a
\* callback, and a call of unhook ran since
C14_Witness ==
    /\ backend = "nix"
    /\ delivered # EmptyBag
    /\ ~lock.held
    /\ last.op = "unhook"

\* the callbacks that are registered, now and after the step
RegisteredCallbacks == {callbacks.map[id] : id \in Registered}

RegisteredCallbacksNext == {callbacks'.map[id] : id \in RegisteredNext}

\* the step invokes callback cb
InvokesCallback(cb) ==
    \E x \in BagToSet(delivered') :
        x[2] = cb /\ (x \in BagToSet(delivered) => delivered'[x] > delivered[x])

\* C15: a callback removed by an unhook or unhook_all that returned Ok is not
\* invoked by a dispatch that begins afterwards: the call leaves the callback
\* out of the map, a dispatch iterates over the map as it is when it begins,
\* and no step invokes a callback that is not in the map.  An invocation that
\* began before the removal is not cancelled: the removal takes place only
\* when no dispatch is in its loop, and a callback leaves that loop only by
\* being invoked.
C15_RemovedCallbackNotInvoked ==
    [][/\ \A id \in Registered :
             (IsUnhook(id) \/ IsUnhookAll) =>
                 /\ last'.res = "Ok"
                 /\ callbacks.map[id] \notin RegisteredCallbacksNext
                 /\ ~lock.held
       /\ DispatchBegins => lock'.todo = Registered
       /\ \A cb \in 1 .. nhooks : InvokesCallback(cb) => cb \in RegisteredCallbacks
       /\ lock.held =>
             /\ lock'.todo \subseteq lock.todo
             /\ \A id \in lock.todo \ lock'.todo : InvokesCallback(callbacks.map[id])]_vars

\* C15 witness: a dispatch that began after unhook(0) returned Ok is in its
\* loop over the callbacks that remain, the removed callback not among them
C15_Witness ==
    /\ last = Call("unhook", "Ok", 0)
    /\ lock.held
    /\ 1 \notin {callbacks.map[id] : id \in lock.todo}
    /\ delivered = EmptyBag

\* a listener thread is inside a callback that does not return
InCallback == lock.held /\ lock.stuck

\* C16: hook, unhook and unhook_all wait for nothing but the short-lived lock
\* of the map, which is not held while a callback is invoked: while a
\* listener thread is inside a callback, also one that does not return, a
\* call of any of the three on an existing manager completes.
C16_CallsNotBlockedByCallback ==
    (InCallback /\ Running) =>
        \A h \in handles :
            /\ ENABLED unhook_all(h)
            /\ ENABLED unhook(h, 0)
            /\ ENABLED (\E ovf \in {"wrap", "panic"} :
                           HookNix(h, 0, ovf) \/ HookGlobal(h, ovf))

\* C17: once the is-listening flag of a manager is true it stays true as long
\* as the manager exists: no call of hook (failed or successful), unhook or
\* unhook_all, on this or another handle, sets it back to false.
C17_ListeningFlagStaysTrue ==
    [][\A h \in handles \cap handles' : is_listening[h] => is_listening'[h]]_vars

\* C17 witness: unhook_all returned on a manager whose listener was started,
\* and the flag of the manager is still true
C17_Witness ==
    /\ last.op = "unhook_all"
    /\ nhooks >= 1
    /\ \E h \in handles : is_listening[h]

\* C18: once the listener is running no operation of the interface, the drop
\* of a manager included, stops it or releases its raw source: the drop of a
\* manager leaves the reference to the event tap in place, and no listener
\* thread dies of it.
C18_DropLeavesListener ==
    /\ [](\A t \in Taps : t.st # "dead")
    /\ [][\A h \in Handles : Drop(h) => TAP_EVENT_REF' = TAP_EVENT_REF]_vars

\* the listener threads that are alive: the dispatch threads that are in
\* their loop, the threads of the hooks / event taps that have not ended
AliveDispatchers == {c \in DOMAIN chans : chans[c].rx = "dispatching"}

AliveTaps == {t \in Taps : t.st \notin {"returned", "dead"}}

\* C19: after a hook returned Ok the listener consists of at least one thread
\* and its threads never return: for every number of device files (zero
\* included) the dispatch thread stays in its loop, and whatever message the
\* OS delivers, the thread of the hook / event tap does not return.
C19_ListenerThreadsNeverReturn ==
    /\ \A c \in DOMAIN chans : chans[c].rx # "ended"
    /\ \A t \in Taps : t.st # "returned"
    /\ (\E h \in handles : is_listening[h]) =>
           (AliveDispatchers # {} \/ AliveTaps # {})

\* C20: no historical buffering: a callback is invoked only with events the
\* hardware emitted after the hook call that registered it returned.
C20_NoEventFromBeforeHook ==
    \A x \in BagToSet(delivered) : x[1].n > hooked_at[x[2]]

---------------------------------------------------------------------------
(* Properties of the handlers of the raw records *)

\* a handler has been given a record: received, mouse_event and invoked are
\* those of its last call
HandledRecord == received # NoRecord

\* the record was read from a device file / given to the hook / to the event tap
NixRecord == backend = "nix" /\ HandledRecord

WindowsRecord == backend = "windows" /\ HandledRecord

DarwinRecord == backend = "darwin" /\ HandledRecord

\* the button codes of the kernel and the buttons they stand for
ButtonCodes == {<<BTN_LEFT, "Left">>, <<BTN_RIGHT, "Right">>, <<BTN_MIDDLE, "Middle">>}

\* C21: the device-file normalizer maps a key-type record with the code of
\* the left / right / middle button to Press(button) when its value is 1
\* (key down) and to Release(button) when its value is 0 (key up), the button
\* matching the code; a key-type record with any other code yields no event
\* and no callback is invoked.
C21_KeyRecordToPressRelease ==
    NixRecord /\ received.type = EV_KEY =>
        /\ \A bc \in ButtonCodes :
              received.code = bc[1] =>
                  /\ received.value = 1 => mouse_event = <<"Press", bc[2]>>
                  /\ received.value = 0 => mouse_event = <<"Release", bc[2]>>
        /\ received.code \notin {bc[1] : bc \in ButtonCodes} =>
              mouse_event = NoEvent /\ invoked = {}

\* a key-up record of the right button was handled and the callbacks were
\* invoked with Release(Right)
C21_Witness ==
    /\ NixRecord
    /\ received = InputEvent(EV_KEY, BTN_RIGHT, 0)
    /\ mouse_event = <<"Release", "Right">>
    /\ invoked # {}

\* A u32 written as <<high word, low word>>, and a c_int, both less 2^31 (the
\* u32 2^31 itself is not an integer TLC can hold)
MagnitudeLessHalf(mag) == (mag[1] - 32768) * WordCard + mag[2]

AbsLessHalf(v) == IF v < 0 THEN -(v + MaxI32) - 1 ELSE (v - MaxI32) - 1

\* mag is the u32 |v|
IsAbsOf(mag, v) ==
    /\ mag[1] \in 0 .. (WordCard - 1)
    /\ mag[2] \in 0 .. (WordCard - 1)
    /\ MagnitudeLessHalf(mag) = AbsLessHalf(v)

\* mouse_event is Scroll(up, |v|) for v > 0 and Scroll(down, |v|) for v < 0
IsScrollOf(v, up, down) ==
    /\ Len(mouse_event) = 3
    /\ mouse_event[1] = "Scroll"
    /\ v > 0 => mouse_event[2] = up
    /\ v < 0 => mouse_event[2] = down
    /\ IsAbsOf(mouse_event[3], v)

\* C22: the device-file normalizer maps a relative-axis record with the
\* signed value v to RelativeMove(v, 0) for the X axis, RelativeMove(0, v)
\* for the Y axis, Scroll(Up, |v|) / Scroll(Down, |v|) for the vertical wheel
\* with v > 0 / v < 0 and Scroll(Right, |v|) / Scroll(Left, |v|) for the
\* horizontal wheel with v > 0 / v < 0: the direction agrees with the sign of
\* v and the magnitude is |v| for every 32-bit v.  A relative-axis record
\* with any other code, and a record of any other type than key and relative
\* axis, yields no event.
C22_RelativeRecordToMoveScroll ==
    /\ NixRecord /\ received.type = EV_REL =>
          /\ received.code = REL_X => mouse_event = <<"RelativeMove", received.value, 0>>
          /\ received.code = REL_Y => mouse_event = <<"RelativeMove", 0, received.value>>
          /\ received.code = REL_WHEEL => IsScrollOf(received.value, "Up", "Down")
          /\ received.code = REL_HWHEEL => IsScrollOf(received.value, "Right", "Left")
          /\ received.code \notin {REL_X, REL_Y, REL_WHEEL, REL_HWHEEL} =>
                mouse_event = NoEvent /\ invoked = {}
    /\ NixRecord /\ received.type \notin {EV_KEY, EV_REL} =>
          mouse_event = NoEvent /\ invoked = {}

\* a vertical wheel record with the value i32::MIN was handled and the
\* callbacks were invoked with Scroll(Down, 2^31)
C22_Witness ==
    /\ NixRecord
    /\ received = InputEvent(EV_REL, REL_WHEEL, MinI32)
    /\ mouse_event = <<"Scroll", "Down", <<32768, 0>>>>
    /\ invoked # {}

\* the signed 16-bit wheel delta in the high word of mouse_data
WheelDelta(mouse_data) ==
    IF mouse_data[1] >= 32768 THEN mouse_data[1] - WordCard ELSE mouse_data[1]

\* C23: in the global-hook backend a vertical wheel message yields
\* Scroll(Up) for every positive signed 16-bit delta and Scroll(Down) for
\* every negative one, and a horizontal wheel message yields Scroll(Right)
\* for every positive delta and Scroll(Left) for every negative one, also
\* for deltas of more than one notch.
C23_WheelSignToDirection ==
    /\ WindowsRecord /\ received.w_param = WM_MOUSEWHEEL =>
          /\ WheelDelta(received.mouse_data) > 0 => mouse_event = <<"Scroll", "Up">>
          /\ WheelDelta(received.mouse_data) < 0 => mouse_event = <<"Scroll", "Down">>
    /\ WindowsRecord /\ received.w_param = WM_MOUSEHWHEEL =>
          /\ WheelDelta(received.mouse_data) > 0 => mouse_event = <<"Scroll", "Right">>
          /\ WheelDelta(received.mouse_data) < 0 => mouse_event = <<"Scroll", "Left">>

\* the scroll-wheel event rec has no vertical delta and a horizontal one
IsHorizontalScroll(rec) ==
    rec.event_type = ScrollWheel /\ rec.delta_y = 0 /\ rec.delta_x # 0

\* the step is a call of a handler with a record
HandlesRecord == nev' = nev + 1 /\ received' # NoRecord

\* C24: in the event-tap backend a scroll-wheel event with the vertical delta
\* dy and the horizontal delta dx yields Scroll(Up) if dy > 0 and
\* Scroll(Down) if dy < 0; with dy = 0 it yields a horizontal direction that
\* the sign of dx determines (two events get the same direction exactly when
\* their dx have the same sign), and with dy = 0 and dx = 0 it yields no
\* event and no callback is invoked.
C24_ScrollWheelDirection ==
    /\ [](DarwinRecord /\ received.event_type = ScrollWheel =>
             /\ received.delta_y > 0 => mouse_event = <<"Scroll", "Up">>
             /\ received.delta_y < 0 => mouse_event = <<"Scroll", "Down">>
             /\ IsHorizontalScroll(received) =>
                   mouse_event \in {<<"Scroll", "Right">>, <<"Scroll", "Left">>}
             /\ received.delta_y = 0 /\ received.delta_x = 0 =>
                   mouse_event = NoEvent /\ invoked = {})
    /\ [][DarwinRecord /\ HandlesRecord /\ IsHorizontalScroll(received)
              /\ IsHorizontalScroll(received') =>
            ((received.delta_x > 0) = (received'.delta_x > 0)
                <=> mouse_event' = mouse_event)]_vars

\* a scroll-wheel event with dy = 0 and dx < 0 was handled after one with
\* dy = 0 and dx > 0, and the callbacks were invoked with a horizontal scroll
C24_Witness ==
    /\ DarwinRecord
    /\ IsHorizontalScroll(received)
    /\ received.delta_x = -1
    /\ mouse_event = <<"Scroll", "Right">>
    /\ invoked # {}
    /\ nev = 2

MouseEventKinds == {"RelativeMove", "AbsoluteMove", "Press", "Release", "Scroll"}

\* the raw record is a button down / up of one of the three buttons, a
\* pointer motion or a vertical / horizontal wheel event
IsQualifying(rec) ==
    IF backend = "nix"
    THEN \/ rec.type = EV_KEY /\ rec.code \in {BTN_LEFT, BTN_RIGHT, BTN_MIDDLE}
         \/ rec.type = EV_REL /\ rec.code \in {REL_X, REL_Y, REL_WHEEL, REL_HWHEEL}
    ELSE IF backend = "windows"
    THEN rec.w_param \in {WM_MOUSEMOVE, WM_LBUTTONDOWN, WM_LBUTTONUP,
                          WM_RBUTTONDOWN, WM_RBUTTONUP, WM_MBUTTONDOWN,
                          WM_MBUTTONUP, WM_MOUSEWHEEL, WM_MOUSEHWHEEL}
    ELSE rec.event_type \in {LeftMouseDown, LeftMouseUp, RightMouseDown,
                             RightMouseUp, OtherMouseDown, OtherMouseUp,
                             MouseMoved, ScrollWheel}

\* C26: every event a callback is invoked with is a RelativeMove, an
\* AbsoluteMove, a Press, a Release or a Scroll and comes from a qualifying
\* raw event (button down / up of the three buttons, pointer motion, vertical
\* or horizontal wheel); a raw event of another type, such as a keyboard
\* event, causes no callback invocation.
C26_OnlyMouseEventsReachCallbacks ==
    HandledRecord /\ invoked # {} =>
        /\ mouse_event[1] \in MouseEventKinds
        /\ IsQualifying(received)

---------------------------------------------------------------------------
(* Properties of the loop over the device files *)

\* the device a path that was opened leads to
DeviceAt(path) == IF path[1] = FilePath(0)[1] THEN files[path[2]].dev ELSE path[2]

\* the opens of device d in the listener start, one reader thread each
OpensOf(d) == {i \in DOMAIN previous_paths : DeviceAt(previous_paths[i]) = d}

\* C27: for every set of by-id and by-path alias paths, each distinct device
\* gets exactly one open and one reader thread in a listener start, however
\* many aliases (symlinks with a relative or an absolute target, or plain
\* paths) lead to it.
C27_OneReaderPerDevice ==
    previous_paths # <<>> => \A d \in Devices : Cardinality(OpensOf(d)) = 1

---------------------------------------------------------------------------
(* Properties of get_position *)

\* the values of enum Error in src/src/error.rs
Errors ==
    {"NotImplemented", "WriteFailed", "UnhookFailed", "X11PointerWindowMismatch",
     "InputIsBlocked", "CGCouldNotCreateEvent", "PermissionDenied", "CustomError"}

\* C28: get_position returns Ok with the position of the pointer or an Err
\* value (NotImplemented where the platform cannot report the position); on
\* no backend does it panic.
C28_GetPositionReturns ==
    last.op = "get_position" => last.res \in {"Ok"} \cup Errors

---------------------------------------------------------------------------
(* Properties of the order of the ids *)

\* C29: the ids come from a counter that only grows: on one manager a
\* successful hook returns an id greater than the id the successful hook
\* before it returned, and the hook that follows a successful unhook(id) does
\* not return that id again.
C29_IdsStrictlyIncrease ==
    [][HookReturned(last'.id) =>
          /\ last.op = "hook" /\ last.res = "Ok" /\ nhooks > 0 => last'.id > last.id
          /\ last.op = "unhook" /\ last.res = "Ok" => last'.id # last.id]_vars

---------------------------------------------------------------------------
(* Properties of a listener start that failed part-way *)

\* the reader threads that are in their loop, with their device file open
AliveReaders == {t \in threads : t.kind = "reader" /\ t.st = "reading"}

\* C30: a listener start that failed part-way is rolled back: when hook has
\* returned the error no reader thread of the failed start is alive or holds
\* its device file open, and a hook that is tried again does not leave two
\* reader threads on one device.
C30_FailedStartRolledBack ==
    /\ \A t \in AliveReaders : chans[t.chan].rx # "dropped"
    /\ \A t, u \in AliveReaders : t.dev = u.dev => t = u

---------------------------------------------------------------------------
(* The reader threads of one listener of the device-file backend, with     *)
(* reads that fail                                                          *)

MaxFailedReads == 3

\* a read(..) of a reader thread fails; the channel is unbounded, the records
\* that wait in it are bounded here
FailsRead ==
    \E t \in threads :
        /\ t.kind = "reader"
        /\ Len(chans[t.chan].q) < MaxFailedReads
        /\ ReadFails(t)

NextRead ==
    \/ \E ovf \in {"wrap", "panic"} :
          /\ nhooks < MaxRecordHooks
          /\ HookNix(1, 0, ovf)
    \/ EmitsDevice(MaxEvents)
    \/ FailsRead
    \/ DispatchesChannel

\* The listener threads are scheduled, as in SpecQueue
SpecRead == Init /\ [][NextRead]_vars /\ WF_vars(DispatchesChannel)

\* the step is a read(..) of reader thread t that fails
IsReadFails(t) ==
    /\ t \in AliveReaders
    /\ Len(chans'[t.chan].q) = Len(chans[t.chan].q) + 1
    /\ chans'[t.chan].q[Len(chans'[t.chan].q)] = ZeroedBuffer(t.dev)

\* the dispatch thread of channel c takes a zeroed buffer from the channel
TakesZeroedBuffer(c) ==
    /\ c \in DOMAIN chans
    /\ chans[c].q # <<>>
    /\ Head(chans[c].q).n = 0
    /\ chans'[c].q = Tail(chans[c].q)

\* C31: a read failure of one reader thread after startup affects that thread
\* only: the record it sends is never the event of a callback invocation (the
\* step of the failure and the step that takes the record from the channel
\* invoke nothing and leave the map unlocked or locked as it was), the reader
\* threads and the dispatch threads that were alive are alive after both
\* steps, and under fair scheduling every event a device emitted is still
\* taken from the channel and its dispatch comes to its end.
C31_ReadFailureIsolated ==
    /\ [](\A x \in BagToSet(delivered) : x[1].n # 0)
    /\ [][\A t \in threads :
             IsReadFails(t) =>
                 /\ delivered' = delivered
                 /\ lock' = lock
                 /\ AliveReaders' = AliveReaders
                 /\ AliveDispatchers' = AliveDispatchers]_vars
    /\ [][\A c \in DOMAIN chans :
             TakesZeroedBuffer(c) =>
                 /\ delivered' = delivered
                 /\ lock' = lock
                 /\ AliveReaders' = AliveReaders
                 /\ AliveDispatchers' = AliveDispatchers]_vars
    /\ \A c \in 1 .. MaxStarts, n \in 1 .. MaxEvents :
          InQueue(c, n) ~> (~InQueue(c, n) /\ ~InDispatch(c, n))

\* C31 witness: with a callback registered, a read of the reader thread of
\* device 1 failed and its zeroed buffer is the next record of the channel,
\* the event of device 2 has been dispatched, and every reader thread is alive
C31_Witness ==
    /\ backend = "nix"
    /\ nhooks > 0
    /\ \E c \in DOMAIN chans :
          /\ chans[c].q # <<>>
          /\ Head(chans[c].q) = ZeroedBuffer(1)
    /\ \E x \in BagToSet(delivered) : x[1].dev = 2
    /\ Cardinality(AliveReaders) = NumDevices

---------------------------------------------------------------------------
(* The listener start and the calls that are not hook *)

\* the step is a call of unhook, on some handle with some id
IsUnhookCall == \E id \in UnhookIds : IsUnhook(id)

\* the step constructs a manager: new() called again, or a clone
IsConstruction == handles' # handles

\* the step opens the raw source or spawns a listener thread
StartsListener ==
    \/ Len(chans') > Len(chans)
    \/ \E t \in threads' : \A u \in threads : <<u.kind, u.h, u.chan, u.dev>> # <<t.kind, t.h, t.chan, t.dev>>

\* C32: the listener is started by hook only.  After the construction of the
\* first manager, and until the first call, no raw source is open and no
\* listener thread runs; a step that constructs another manager, an unhook and
\* an unhook_all open no raw source, spawn no thread and leave the flag and the
\* counter of every manager there is unchanged, a manager from new() starting
\* with the flag unset and the counter 0; and a step that opens the raw source
\* or spawns a thread is a hook on a manager whose flag is unset.
C32_ListenerStartedByHookOnly ==
    /\ [](last.op = "new" =>
             /\ threads = {}
             /\ chans = <<>>
             /\ \A h \in handles : ~is_listening[h] /\ callback_counter[h] = 0)
    /\ [][(IsConstruction \/ IsUnhookCall \/ IsUnhookAll) =>
             /\ ~StartsListener
             /\ threads' = threads
             /\ chans' = chans
             /\ TAP_EVENT_REF' = TAP_EVENT_REF
             /\ \A h \in handles :
                   /\ is_listening'[h] = is_listening[h]
                   /\ callback_counter'[h] = callback_counter[h]
             /\ (IsConstruction /\ backend # "nix") =>
                   \A h \in handles' \ handles :
                       ~is_listening'[h] /\ callback_counter'[h] = 0]_vars
    /\ [][StartsListener =>
             /\ last'.op = "hook"
             /\ \E h \in handles : NeedsStart(h) /\ (last'.res = "Ok" => is_listening'[h])]_vars

\* C32 witness: a manager that listens and has registered callbacks has called
\* unhook_all, next to a second manager that was constructed after the listener
\* start and has not started a listener; the listener thread is still there
C32_Witness ==
    /\ last.op = "unhook_all"
    /\ is_listening[1]
    /\ callback_counter[1] > 0
    /\ 2 \in handles
    /\ ~is_listening[2]
    /\ \E t \in threads : t.h = 1
    /\ \A t \in threads : t.h # 2

---------------------------------------------------------------------------
(* The action calls: press_button, release_button, click_button and         *)
(* scroll_wheel.  The manager of the device-file backend is the uinput one  *)

\* src/src/nix/uinput.rs
EV_SYN == 0

SYN_REPORT == 0

\* enum MouseButton / enum ScrollDirection
MouseButton == {"Left", "Right", "Middle"}

ScrollDirection == {"Up", "Down", "Left", "Right"}

\* let btn = match button { Left => BTN_LEFT, Right => BTN_RIGHT, Middle => BTN_MIDDLE }
UInputButton(button) ==
    IF button = "Left" THEN BTN_LEFT
    ELSE IF button = "Right" THEN BTN_RIGHT
    ELSE BTN_MIDDLE

\* windows: the Input handed to SendInput, of which dw_flags (a variant of
\* enum WindowsMouseEvent) and mouse_data are kept
Input(event, mouse_data) == [event |-> event, mouse_data |-> mouse_data]

\* darwin: the event CGEventCreateMouseEvent creates
CGMouseEvent(event_type, mouse_button) ==
    [event_type |-> event_type, mouse_button |-> mouse_button]

\* darwin: the event CGEventCreateScrollWheelEvent(null_mut(), Line, 2, wheel1,
\* wheel2) creates
CGScrollWheelEvent(wheel1, wheel2) ==
    [event_type |-> ScrollWheel, wheel1 |-> wheel1, wheel2 |-> wheel2]

\* press_button, the records it hands to the OS in their order: uinput
\* emit(EV_KEY, btn, 1) and syncronize(); windows send_input(event, 0); darwin
\* create_mouse_event(event_type, mouse_button)
PressRecords(button) ==
    IF backend = "nix"
    THEN <<InputEvent(EV_KEY, UInputButton(button), 1), InputEvent(EV_SYN, SYN_REPORT, 0)>>
    ELSE IF backend = "windows"
    THEN <<Input(IF button = "Left" THEN "LeftDown"
                 ELSE IF button = "Middle" THEN "MiddleDown"
                 ELSE "RightDown", 0)>>
    ELSE <<IF button = "Left" THEN CGMouseEvent(LeftMouseDown, "Left")
           ELSE IF button = "Middle" THEN CGMouseEvent(OtherMouseDown, "Center")
           ELSE CGMouseEvent(RightMouseDown, "Right")>>

\* release_button, likewise
ReleaseRecords(button) ==
    IF backend = "nix"
    THEN <<InputEvent(EV_KEY, UInputButton(button), 0), InputEvent(EV_SYN, SYN_REPORT, 0)>>
    ELSE IF backend = "windows"
    THEN <<Input(IF button = "Left" THEN "LeftUp"
                 ELSE IF button = "Middle" THEN "MiddleUp"
                 ELSE "RightUp", 0)>>
    ELSE <<IF button = "Left" THEN CGMouseEvent(LeftMouseUp, "Left")
           ELSE IF button = "Middle" THEN CGMouseEvent(OtherMouseUp, "Center")
           ELSE CGMouseEvent(RightMouseUp, "Right")>>

\* Faulty variant of ScrollRecords: the sign of the value follows Up | Right on
\* every backend
ScrollRecordsSameSign(direction) ==
    IF backend = "nix"
    THEN <<IF direction = "Up" THEN InputEvent(EV_REL, REL_WHEEL, 1)
           ELSE IF direction = "Down" THEN InputEvent(EV_REL, REL_WHEEL, -1)
           ELSE IF direction = "Left" THEN InputEvent(EV_REL, REL_HWHEEL, -1)
           ELSE InputEvent(EV_REL, REL_HWHEEL, 1),
           InputEvent(EV_SYN, SYN_REPORT, 0)>>
    ELSE IF backend = "windows"
    THEN <<IF direction = "Up" THEN Input("Wheel", 150)
           ELSE IF direction = "Down" THEN Input("Wheel", -150)
           ELSE IF direction = "Right" THEN Input("HWheel", 150)
           ELSE Input("HWheel", -150)>>
    ELSE LET distance == IF direction \in {"Up", "Right"} THEN 5 ELSE -5
         IN  <<IF direction \in {"Up", "Down"} THEN CGScrollWheelEvent(distance, 0)
               ELSE CGScrollWheelEvent(0, distance)>>

\* scroll_wheel, likewise: uinput (REL_WHEEL, 1) / (REL_WHEEL, -1) /
\* (REL_HWHEEL, -1) / (REL_HWHEEL, 1); windows (Wheel, 150) / (Wheel, -150) /
\* (HWheel, 150) / (HWheel, -150); darwin distance 5 for Up | Left and -5 for
\* Down | Right, on the first wheel for Up | Down and on the second for
\* Right | Left
ScrollRecords(direction) ==
    IF backend = "nix"
    THEN <<IF direction = "Up" THEN InputEvent(EV_REL, REL_WHEEL, 1)
           ELSE IF direction = "Down" THEN InputEvent(EV_REL, REL_WHEEL, -1)
           ELSE IF direction = "Left" THEN InputEvent(EV_REL, REL_HWHEEL, -1)
           ELSE InputEvent(EV_REL, REL_HWHEEL, 1),
           InputEvent(EV_SYN, SYN_REPORT, 0)>>
    ELSE IF backend = "windows"
    THEN <<IF direction = "Up" THEN Input("Wheel", 150)
           ELSE IF direction = "Down" THEN Input("Wheel", -150)
           ELSE IF direction = "Right" THEN Input("HWheel", 150)
           ELSE Input("HWheel", -150)>>
    ELSE LET distance == IF direction \in {"Up", "Left"} THEN 5 ELSE -5
         IN  <<IF direction \in {"Up", "Down"} THEN CGScrollWheelEvent(distance, 0)
               ELSE CGScrollWheelEvent(0, distance)>>

\* The error of a call that could not hand a record to the OS: uinput the
\* error of write_all; windows InputIsBlocked when SendInput returns 0 (or the
\* error of get_position_raw); darwin CGCouldNotCreateEvent
PostError ==
    IF backend = "nix" THEN "WriteFailed"
    ELSE IF backend = "windows" THEN "InputIsBlocked"
    ELSE "CGCouldNotCreateEvent"

\* A call that hands the records recs to the OS one after the other, each with
\* ?: failAt is the record that cannot be handed over (0: none).  The records
\* before it are with the OS, and the error is returned
Post(recs, failAt) ==
    IF failAt = 0 THEN [posted |-> recs, res |-> "Ok"]
    ELSE [posted |-> SubSeq(recs, 1, failAt - 1), res |-> PostError]

\* the records at which a call with the records recs can fail
FailAts(recs) == 0 .. Len(recs)

\* Faulty variant of ClickButton: the release is issued although the press
\* failed
ClickButtonReleasesAnyway(button, failPress, failRelease) ==
    LET press == Post(PressRecords(button), failPress)
        release == Post(ReleaseRecords(button), failRelease)
    IN  [posted |-> press.posted \o release.posted,
         res |-> IF press.res # "Ok" THEN press.res ELSE release.res]

\* self.press_button(&button)?; self.release_button(&button)
ClickButton(button, failPress, failRelease) ==
    LET press == Post(PressRecords(button), failPress)
        release == Post(ReleaseRecords(button), failRelease)
    IN  IF press.res # "Ok" THEN press
        ELSE [posted |-> press.posted \o release.posted, res |-> release.res]

\* an action call of manager h that ends with the outcome out
Acts(h, op, out) ==
    /\ h \in handles
    /\ Running
    /\ injected' = injected \o out.posted
    /\ last' = Call(op, out.res, 0)
    /\ UNCHANGED <<handler_vars, glob_vars, backend, handles, callbacks,
                   callback_counter, is_listening, nhooks, chans, threads, nev,
                   delivered, ndev, lock, TAP_EVENT_REF, hooked_at>>

press_button(h, button, failAt) ==
    /\ failAt \in FailAts(PressRecords(button))
    /\ Acts(h, "press_button", Post(PressRecords(button), failAt))

release_button(h, button, failAt) ==
    /\ failAt \in FailAts(ReleaseRecords(button))
    /\ Acts(h, "release_button", Post(ReleaseRecords(button), failAt))

click_button(h, button, failPress, failRelease) ==
    /\ failPress \in FailAts(PressRecords(button))
    /\ failRelease \in FailAts(ReleaseRecords(button))
    /\ Acts(h, "click_button", ClickButton(button, failPress, failRelease))

scroll_wheel(h, direction, failAt) ==
    /\ failAt \in FailAts(ScrollRecords(direction))
    /\ Acts(h, "scroll_wheel", Post(ScrollRecords(direction), failAt))

MaxInjected == 3

\* the action calls of one manager
NextAction ==
    /\ Len(injected) < MaxInjected
    /\ \/ \E b \in MouseButton : \E failAt \in FailAts(PressRecords(b)) :
             press_button(1, b, failAt)
       \/ \E b \in MouseButton : \E failAt \in FailAts(ReleaseRecords(b)) :
             release_button(1, b, failAt)
       \/ \E b \in MouseButton :
             \E failPress \in FailAts(PressRecords(b)),
                failRelease \in FailAts(ReleaseRecords(b)) :
             click_button(1, b, failPress, failRelease)
       \/ \E d \in ScrollDirection : \E failAt \in FailAts(ScrollRecords(d)) :
             scroll_wheel(1, d, failAt)

SpecAction == Init /\ [][NextAction]_vars

\* the records the step has handed to the OS
Posted == SubSeq(injected', Len(injected) + 1, Len(injected'))

\* s is the beginning of t, and not the whole of it
IsProperPrefix(s, t) == Len(s) < Len(t) /\ s = SubSeq(t, 1, Len(s))

\* the step is a call of click_button
IsClickButton == last'.op = "click_button" /\ Len(injected') >= Len(injected)

\* C33: click_button(b) performs press_button(b) and then release_button(b):
\* when it returns Ok the records of the press are with the OS, followed by
\* the records of the release; when the press fails the call returns its
\* error and no record of the release has been issued; and when the press went
\* through, the result is that of the release: an error exactly when a record
\* of the release could not be issued.
C33_ClickIsPressThenRelease ==
    [][IsClickButton =>
          \E b \in MouseButton :
              \/ /\ last'.res = "Ok"
                 /\ Posted = PressRecords(b) \o ReleaseRecords(b)
              \/ /\ last'.res = PostError
                 /\ IsProperPrefix(Posted, PressRecords(b))
              \/ /\ last'.res = PostError
                 /\ \E r \in {SubSeq(ReleaseRecords(b), 1, n) :
                                  n \in 0 .. Len(ReleaseRecords(b)) - 1} :
                        Posted = PressRecords(b) \o r]_vars

\* C33 witness: a click of the uinput manager whose press went through and
\* whose release failed at its second record has returned the error of the
\* release: the records of the press and the first record of the release are
\* with the OS
C33_Witness ==
    /\ last = Call("click_button", PostError, 0)
    /\ \E b \in MouseButton :
          injected = PressRecords(b) \o SubSeq(ReleaseRecords(b), 1, 1)

---------------------------------------------------------------------------
(* Callbacks that call the registry, and callbacks that panic *)

NextCallback ==
    \/ \E ovf \in {"wrap", "panic"} :
          /\ nhooks < MaxDeliverHooks
          /\ HookNix(1, 0, ovf) \/ HookGlobal(1, ovf)
    \/ unhook(1, 0)
    \/ unhook_all(1)
    \/ Clone
    \/ \E t \in threads : Install(t, TRUE)
    \/ \E t \in threads : Enable(t)
    \/ Emits(MaxEvents)
    \/ Dispatches
    \/ \E id \in lock.todo, outcome \in {"deadlock", "panic"} : CallbackCalls(id, outcome)
    \/ \E id \in lock.todo : CallbackPanics(id)
    \/ \E op \in {"hook", "unhook", "unhook_all"} : PoisonedCall(1, op)

SpecCallback == Init /\ [][NextCallback]_vars

\* the step is the invocation of the callback under id, in which it calls
\* hook, unhook or unhook_all
CallsFromCallback(id) == \E outcome \in {"deadlock", "panic"} : CallbackCalls(id, outcome)

\* C34: a callback that calls hook, unhook or unhook_all on the registry that
\* is dispatching to it does not deadlock: after the invocation in which it
\* made the call the callback has returned, no dispatch thread has ended, and
\* the loop over the callbacks is at its next callback or at its end.
C34_CallFromCallbackReturns ==
    [][\A id \in Registered :
          CallsFromCallback(id) =>
              /\ ~lock'.stuck
              /\ AliveDispatchers' = AliveDispatchers
              /\ lock' = LockedBy(lock.by, lock.ev, lock.todo \ {id})]_vars

\* C36: hook, unhook and unhook_all return a Result and do not panic, in
\* every reachable state: also after a registered callback has panicked
\* during dispatch.
C36_CallsNeverPanic ==
    last.op \in {"hook", "unhook", "unhook_all"} => last.res # "panic"

---------------------------------------------------------------------------
(* Two managers on the process-wide callback map *)

\* manager h has registered no callback yet: its counter is at 0 and has not
\* wrapped
RegisteredNothing(h) == callback_counter[h] = 0 /\ nhooks < CallbackIdCard

\* the step is a hook of manager h that registered a callback
IsHookOf(h) == HookInserted /\ callback_counter'[h] # callback_counter[h]

\* the step is a call of manager h
IsCallOf(h) ==
    \/ IsHookOf(h)
    \/ \E id \in UnhookIds : unhook(h, id)
    \/ unhook_all(h)

\* C35: on the backends with the process-wide map, the calls of one manager
\* affect only the callbacks registered through it: as long as manager 2 has
\* registered nothing, every callback in the map was registered through
\* manager 1, and a hook, an unhook(id) or an unhook_all of manager 2 leaves
\* every one of them in the map under its id.
C35_InstancesIsolated ==
    [][(/\ backend \in {"windows", "darwin"}
        /\ 2 \in handles
        /\ RegisteredNothing(2)
        /\ IsCallOf(2)) =>
           \A id \in Registered : Kept(id)]_vars

---------------------------------------------------------------------------
(* The records of scroll_wheel on their way to the listener of the backend *)

\* the height of a line in pixels, by which the OS multiplies the line count
\* of a scroll-wheel event to fill its point deltas (fields 96 and 97)
PixelsPerLine == {1, 10}

\* the message the low-level hook gets for an Input with the flag event
WindowMessage(event) ==
    IF event = "LeftDown" THEN WM_LBUTTONDOWN
    ELSE IF event = "LeftUp" THEN WM_LBUTTONUP
    ELSE IF event = "RightDown" THEN WM_RBUTTONDOWN
    ELSE IF event = "RightUp" THEN WM_RBUTTONUP
    ELSE IF event = "MiddleDown" THEN WM_MBUTTONDOWN
    ELSE IF event = "MiddleUp" THEN WM_MBUTTONUP
    ELSE IF event = "Wheel" THEN WM_MOUSEWHEEL
    ELSE WM_MOUSEHWHEEL

\* The raw record the listener of the backend gets for a record an action call
\* handed to the OS.  The kernel passes the record written to the uinput file
\* on as it is; SendInput puts mouse_data, as a 16-bit delta, in the high word
\* of the mouse_data of the hook struct; the event tap gets the event type, the
\* location of the pointer (dx: x, dy: y of send_input, the position passed to
\* CGEventCreateMouseEvent) and the wheels in pixels
RawRecordOf(rec, px) ==
    IF backend = "nix" THEN rec
    ELSE IF backend = "windows"
    THEN MouseMessage(WindowMessage(rec.event), <<1919, -1>>,
                      <<rec.mouse_data % WordCard, 0>>)
    ELSE LET point == <<Double("finite", 1919), Double("finite", 0)>>
         IN  IF rec.event_type = ScrollWheel
             THEN CGEvent(ScrollWheel, point, rec.wheel1 * px, rec.wheel2 * px)
             ELSE CGEvent(rec.event_type, point, 0, 0)

\* the listener gets a record that an action call handed to the OS
ListenerGets(t, i, px) ==
    /\ i \in DOMAIN injected
    /\ Handle(t, RawRecordOf(injected[i], px))

NextScroll ==
    \/ \E ovf \in {"wrap", "panic"} :
          /\ nhooks < MaxRecordHooks
          /\ HookNix(1, 0, ovf) \/ HookGlobal(1, ovf)
    \/ \E t \in threads : Install(t, TRUE)
    \/ \E t \in threads : Enable(t)
    \/ \E d \in ScrollDirection : \E failAt \in FailAts(ScrollRecords(d)) :
          /\ Len(injected) < MaxInjected
          /\ scroll_wheel(1, d, failAt)
    \/ \E t \in threads, i \in 1 .. MaxInjected + 1, px \in PixelsPerLine :
          /\ nev < MaxRecords
          /\ t.dev \in {0, 1}
          /\ ListenerGets(t, i, px)

SpecScroll == Init /\ [][NextScroll]_vars

\* the event of a scroll in direction d, as the listener of the backend
\* constructs it from a wheel value of one notch
ScrollOf(d) == IF backend = "nix" THEN ScrollBy(d, <<0, 1>>) ELSE Scroll(d)

\* C37: the scroll direction round-trips between the action side and the
\* listener side of one backend: for every direction d, the listener makes
\* Scroll(d) of the wheel record that scroll_wheel(d) hands to the OS (uinput:
\* the wheel codes with +1 / -1; windows: +150 / -150; darwin: +5 / -5 lines on
\* the first or the second wheel), and invokes the registered callbacks with
\* it.
C37_ScrollRoundTrips ==
    \A d \in ScrollDirection, px \in PixelsPerLine :
        (HandledRecord /\ received = RawRecordOf(ScrollRecords(d)[1], px)) =>
            /\ mouse_event = ScrollOf(d)
            /\ invoked # {}

\* C37 witness: on darwin the record of scroll_wheel(Right) has reached the
\* event tap, and the callbacks were invoked with Scroll(Right)
C37_Witness ==
    /\ backend = "darwin"
    /\ received = RawRecordOf(ScrollRecords("Right")[1], 10)
    /\ Len(injected) > 0
    /\ mouse_event = Scroll("Right")
    /\ invoked # {}

\* C38: in the device-file backend Release(button) is dispatched only for a
\* key-up record (value 0) of that button: a key-type record with the code of
\* a button and a value other than 0 and 1 yields no Release.
C38_ReleaseOnlyForKeyUp ==
    (NixRecord /\ received.type = EV_KEY) =>
        \A bc \in ButtonCodes :
            mouse_event = Release(bc[2]) => received.code = bc[1] /\ received.value = 0

---------------------------------------------------------------------------
(* The static map that is created by the first call *)

\* the static CALLBACKS is still None
MapNotCreated == backend \in {"windows", "darwin"} /\ ~callbacks.some

\* C39: on the backends whose process-wide map is created lazily, the first
\* hook call (map still None) registers the callback exactly once, advances
\* the counter of its manager by exactly one and returns the id under which
\* the callback is stored; and an unhook or unhook_all called before any hook
\* creates the map and behaves as on an empty registry: unhook returns
\* UnhookFailed, unhook_all returns Ok, and the map is there and empty.
C39_FirstCallCreatesMap ==
    [][MapNotCreated =>
          /\ HookInserted =>
                /\ last'.res = "Ok"
                /\ callbacks' = Some(MapInsert(EmptyMap, last'.id, nhooks'))
                /\ \E h \in handles :
                      /\ last'.id = callback_counter[h]
                      /\ callback_counter' =
                             [callback_counter EXCEPT ![h] = callback_counter[h] + 1]
          /\ IsUnhookCall => callbacks' = Some(EmptyMap) /\ last'.res = "UnhookFailed"
          /\ IsUnhookAll => callbacks' = Some(EmptyMap) /\ last'.res = "Ok"
          /\ (IsUnhookCall \/ IsUnhookAll) => callback_counter' = callback_counter]_vars

\* C39 witness: no hook has been called, and an unhook has created the map,
\* found it empty and returned UnhookFailed
C39_Witness ==
    /\ backend = "darwin"
    /\ nhooks = 0
    /\ callbacks = Some(EmptyMap)
    /\ last = Call("unhook", "UnhookFailed", 5)

====
